---- MODULE Spec2Model ----
(***************************************************************************)
(* Ayah-alignment engine of andalus-taraweeh:                              *)
(*   scripts/ai_pipeline/quran.py     match_quran_markers and its passes   *)
(*   scripts/ai_pipeline/pipeline.py  the per-day override layer           *)
(*                                                                         *)
(* Text is abstracted to the numbers the engine derives from it: a         *)
(* transcript segment carries, per corpus entry, the fuzzy score and the   *)
(* token overlap of its text against that entry (ev).  Times are whole     *)
(* seconds.  Scores are whole points (0..100); overlaps and confidences    *)
(* are in permille; unrounded confidences are in units of 1e-5.  The       *)
(* surah display name is identified with the surah number (load_corpus     *)
(* gives every entry of a surah the same name).  Transcript segments       *)
(* carry no word timings and are more than 2.6 s apart, so no merged and   *)
(* no window candidate exists and _resolve_marker_times falls back to the  *)
(* segment's own start and end.                                            *)
(***************************************************************************)
EXTENDS Integers, Sequences, FiniteSets, TLC

\* ------------------------------------------------------------------------
\* Configuration defaults (match_quran_markers signature)
\* ------------------------------------------------------------------------
min_score == 78
min_gap_seconds == 8
min_overlap == 180
min_confidence == 620
ambiguous_min_score == 74
ambiguous_min_confidence == 500
max_infer_gap_ayahs == 8
max_infer_gap_seconds == 720
max_leading_infer_ayahs == 3
duplicate_ayah_window_seconds == 120
max_forward_jump_ayahs == 2
repeat_lookback_ayahs == 1
repeat_min_score == 90
repeat_min_overlap == 250
repeat_min_confidence == 800
repeat_max_gap_seconds == 10
max_recovery_jump_ayahs == 12
min_infer_step_seconds == 4
max_infer_step_seconds == 28
non_recitation_hold_seconds == 16
long_break_reacquire_seconds == 180
require_weak_support_for_inferred == TRUE
allow_unverified_leading_infer == TRUE

\* ------------------------------------------------------------------------
\* Bounds of the model
\* ------------------------------------------------------------------------
MaxSegments == 3

\* ------------------------------------------------------------------------
\* Arithmetic helpers
\* ------------------------------------------------------------------------
None == -1

Max(a, b) == IF a >= b THEN a ELSE b

Min(a, b) == IF a <= b THEN a ELSE b

Abs(a) == IF a >= 0 THEN a ELSE 0 - a

\* Python round(n / d) for n >= 0, d > 0: ties go to the even neighbour.
RoundDiv(n, d) ==
    LET q == n \div d
        r == n % d
    IN  IF 2 * r < d THEN q
        ELSE IF 2 * r > d THEN q + 1
        ELSE IF q % 2 = 0 THEN q ELSE q + 1

RECURSIVE SeqMax(_, _)
SeqMax(s, default) ==
    IF s = <<>> THEN default ELSE Max(Head(s), SeqMax(Tail(s), default))

SetMax(S, default) ==
    IF S = {} THEN default ELSE CHOOSE x \in S : \A y \in S : y <= x

SetMin(S, default) ==
    IF S = {} THEN default ELSE CHOOSE x \in S : \A y \in S : x <= y

\* ------------------------------------------------------------------------
\* Corpus (load_corpus): linear order, surah-major, ayah-minor.
\* tok is the token count of the entry's normalized text.
\* ------------------------------------------------------------------------
Corpus ==
    << [sn |-> 2, ay |-> 1, tok |-> 12],
       [sn |-> 2, ay |-> 2, tok |-> 50],
       [sn |-> 2, ay |-> 3, tok |-> 12],
       [sn |-> 2, ay |-> 4, tok |-> 12],
       [sn |-> 3, ay |-> 1, tok |-> 12],
       [sn |-> 3, ay |-> 2, tok |-> 12] >>
    \o [k \in 1 .. 11 |-> [sn |-> 4, ay |-> k, tok |-> 12]]

\* f[x] for the x of the one-element domain of f: With([x \in {e} |-> body]) is
\* body with x bound to the value of e
With(f) == f[CHOOSE x \in DOMAIN f : TRUE]

NCorpus == Len(Corpus)

CorpusIdx == 0 .. (NCorpus - 1)

EntryAt(i) == Corpus[i + 1]

\* corpus_index_by_surah_ayah / entry_lookup: None when the key is absent
IndexOf(sn, ay) ==
    With([S \in {{i \in CorpusIdx : EntryAt(i).sn = sn /\ EntryAt(i).ay = ay}} |->
    IF S = {} THEN None ELSE CHOOSE i \in S : TRUE])

InCorpus(sn, ay) == IndexOf(sn, ay) # None

\* surah_totals: the largest ayah number of the surah in the corpus
SurahTotal(sn, default) ==
    SetMax({EntryAt(i).ay : i \in {j \in CorpusIdx : EntryAt(j).sn = sn}}, default)

\* ------------------------------------------------------------------------
\* Quality and markers
\* ------------------------------------------------------------------------
quality_rank(q) ==
    CASE q = "manual" -> 4
      [] q = "high" -> 3
      [] q = "ambiguous" -> 2
      [] q = "inferred" -> 1
      [] OTHER -> 0

is_anchor_quality(q) == q \in {"high", "ambiguous", "manual"}

is_strong_anchor_marker(m) == m.q \in {"high", "manual"} /\ m.cf >= 700

\* Marker.__post_init__: time mirrors start_time, end_time defaults to it
Marker(st, en, sn, ay, q, cf) ==
    [t |-> st, st |-> st, en |-> en, sn |-> sn, ay |-> ay, q |-> q, cf |-> cf]

\* Python "marker.start_time or marker.time"
StartOf(m) == IF m.st # 0 THEN m.st ELSE m.t

\* Python "marker.end_time or d"
EndOr(m, d) == IF m.en # 0 THEN m.en ELSE d

\* sort key (time, surah_number or 0, ayah)
KeyLE(a, b) ==
    LET number(m) == IF m.sn = None THEN 0 ELSE m.sn
    IN  \/ a.t < b.t
        \/ a.t = b.t /\ number(a) < number(b)
        \/ a.t = b.t /\ number(a) = number(b) /\ a.ay <= b.ay

TimeLE(a, b) == a.t <= b.t

AyahTimeLE(a, b) == a.ay < b.ay \/ (a.ay = b.ay /\ a.t <= b.t)

\* the sort keys the engine uses, by name
LE(key, a, b) ==
    CASE key = "key" -> KeyLE(a, b)
      [] key = "time" -> TimeLE(a, b)
      [] key = "ayah_time" -> AyahTimeLE(a, b)
      [] key = "fraction" -> a.num * b.den <= b.num * a.den

\* stable insertion of x after every element that is <= x
RECURSIVE InsertSorted(_, _, _)
InsertSorted(s, x, key) ==
    IF s = <<>> THEN <<x>>
    ELSE IF LE(key, Head(s), x) THEN <<Head(s)>> \o InsertSorted(Tail(s), x, key)
    ELSE <<x>> \o s

\* Python sorted(): stable
RECURSIVE SortedBy(_, _)
SortedBy(s, key) ==
    IF s = <<>> THEN <<>>
    ELSE InsertSorted(SortedBy(SubSeq(s, 1, Len(s) - 1), key), s[Len(s)], key)

SortByKey(s) == SortedBy(s, "key")

\* ------------------------------------------------------------------------
\* Transcript segments and their evidence
\* ------------------------------------------------------------------------
\* evidence levels: raw composite score and token overlap (permille) of the
\* segment text against the entry it recites; every level has an anchor hit
Levels == {"exact", "rep", "high", "amb", "weak"}

LevelScore(lv) ==
    CASE lv = "exact" -> 100
      [] lv = "rep" -> 94
      [] lv = "high" -> 84
      [] lv = "amb" -> 74
      [] lv = "weak" -> 66

LevelOverlap(lv) ==
    CASE lv = "exact" -> 1000
      [] lv = "rep" -> 900
      [] lv = "high" -> 500
      [] lv = "amb" -> 150
      [] lv = "weak" -> 140

NoEvidence == [i \in CorpusIdx |-> "none"]

\* len(normalize_arabic(segment.text)) of the segment kinds
NormalizedLen(seg) ==
    CASE seg.k = "text" -> 20
      [] seg.k = "fatiha" -> 20
      [] seg.k = "nonrec" -> 9
      [] OTHER -> 8

\* _score_segment_against_entry / _has_anchor_token_hit on the abstract text
HasEvidence(seg, i) == seg.k = "text" /\ seg.ev[i] # "none"

\* FATIHA_HINTS and NON_RECITATION_HINTS: phrase k of a list, norm = whether it
\* has been through normalize_arabic
FATIHA_HINTS == [k \in 1 .. 6 |-> [list |-> "fatiha", k |-> k, norm |-> FALSE]]

NON_RECITATION_HINTS == [k \in 1 .. 7 |-> [list |-> "nonrec", k |-> k, norm |-> FALSE]]

\* [normalize_arabic(text, strict=False) for text in hints]
normalize_hints(hints) == [k \in DOMAIN hints |-> [hints[k] EXCEPT !.norm = TRUE]]

\* len(phrase) >= 18 for the hints of the Fatiha list
is_long_phrase(phrase) == phrase.list = "fatiha" /\ phrase.k \in {1, 4, 5, 6}

\* fuzz.partial_ratio(normalized_segment, phrase) on the abstract text: a
\* "fatiha" segment recites phrases 1 and 2 of the Fatiha list, a "nonrec"
\* segment is phrase 1 of the non-recitation list, and recited text is close
\* to phrase 2 of the Fatiha list; a phrase that was never normalised scores
\* lower
partial_ratio(seg, phrase) ==
    LET base == CASE seg.k = "fatiha" /\ phrase.list = "fatiha" /\ phrase.k \in {1, 2} -> 100
                  [] seg.k = "text" /\ phrase.list = "fatiha" /\ phrase.k = 2 -> 85
                  [] seg.k = "nonrec" /\ phrase.list = "nonrec" /\ phrase.k = 1 -> 100
                  [] OTHER -> 40
    IN  IF phrase.norm THEN base ELSE base - 10

\* a memo that grows with every call
memoised_hints_appended(memo, hints) == memo \o normalize_hints(hints)

\* the phrase list a classifier scores against: the memoised list, filled on
\* the first call that reaches "if not FATIHA_HINTS_NORM" (lines 579-580 and
\* 601-602)
memoised_hints(memo, hints) == IF memo = <<>> THEN normalize_hints(hints) ELSE memo

\* _is_fatiha_like_segment with min_score = 90: [result, memo]
is_fatiha_like_segment(seg, memo) ==
    IF NormalizedLen(seg) < 10 \/ NormalizedLen(seg) > 80
    THEN [result |-> FALSE, memo |-> memo]
    ELSE
    With([phrases \in {memoised_hints(memo, FATIHA_HINTS)} |->
    LET medium_hits == Cardinality({k \in DOMAIN phrases :
                                       partial_ratio(seg, phrases[k]) >= 90 - 6})
        long_hit == \E k \in DOMAIN phrases :
                       /\ is_long_phrase(phrases[k])
                       /\ partial_ratio(seg, phrases[k]) >= 90 - 2
    IN  [result |-> long_hit \/ medium_hits >= 2, memo |-> phrases]])

\* _is_non_recitation_segment with min_score = 95: [result, memo]; the
\* segment kinds have at most 6 tokens, and an equal phrase scores 100
is_non_recitation_segment(seg, memo) ==
    IF NormalizedLen(seg) < 4 \/ NormalizedLen(seg) > 48
    THEN [result |-> FALSE, memo |-> memo]
    ELSE
    With([phrases \in {memoised_hints(memo, NON_RECITATION_HINTS)} |->
    [result |-> \E k \in DOMAIN phrases : partial_ratio(seg, phrases[k]) >= 95,
     memo |-> phrases]])

\* ------------------------------------------------------------------------
\* Candidate scoring
\* ------------------------------------------------------------------------
NoCand == [adj |-> None, sc |-> None, ov |-> 0, st |-> 0, en |-> 0]

\* match_quran_markers.evaluate_index: the segment variant with +2 anchor bonus
evaluate_index(seg, index) ==
    IF index < 0 \/ index >= NCorpus THEN NoCand
    ELSE IF ~HasEvidence(seg, index) THEN NoCand
    ELSE [adj |-> LevelScore(seg.ev[index]) + 2,
          sc |-> LevelScore(seg.ev[index]),
          ov |-> LevelOverlap(seg.ev[index]),
          st |-> seg.s, en |-> seg.e]

\* a confidence that leaves out the margin over the rival
candidate_confidence_without_margin(score, rival_score, overlap) ==
    550 * score + 20 * overlap

\* _candidate_confidence in units of 1e-5
candidate_confidence(score, rival_score, overlap) ==
    LET margin == Max(0, score - Max(0, rival_score))
    IN  550 * score + 1250 * Min(20, margin) + 20 * overlap

\* _candidate_is_valid: [valid, quality, confidence (permille, rounded)]
candidate_is_valid(cand, rival, local_min_score, local_min_overlap, threshold, amb_min_score, amb_min_confidence) ==
    LET conf == candidate_confidence(cand.adj, rival, cand.ov)
        amb_min_overlap == Max(100, (local_min_overlap * 6) \div 10)
        is_high == /\ cand.adj >= local_min_score
                   /\ cand.ov >= local_min_overlap
                   /\ conf >= threshold * 100
        is_ambiguous == /\ cand.adj >= amb_min_score
                        /\ cand.ov >= amb_min_overlap
                        /\ conf >= amb_min_confidence * 100
    IN  [valid |-> is_high \/ is_ambiguous,
         quality |-> IF is_high THEN "high"
                     ELSE IF is_ambiguous THEN "ambiguous" ELSE "none",
         conf |-> RoundDiv(conf, 100)]

\* _resolve_marker_times without word timings: the default onset and end
resolve_marker_times(seg, cand) ==
    [st |-> seg.s, en |-> Max(seg.s, cand.en)]

\* ------------------------------------------------------------------------
\* Transcript searches used by the gap filler and the post-processors
\* ------------------------------------------------------------------------
\* _reset_points_between
reset_points_between(resets, left, right) ==
    LET lo == Min(left, right) + 3
        hi == Max(left, right) - 3
    IN  IF hi <= lo THEN {}
        ELSE {resets[k] : k \in {j \in DOMAIN resets : lo <= resets[j] /\ resets[j] <= hi}}

\* _contains_fatiha_reset_between
contains_fatiha_reset_between(resets, left, right) ==
    reset_points_between(resets, left, right) # {}

\* _defer_inferred_time_after_fatiha: the resets are visited in list order
RECURSIVE defer_from(_, _, _, _)
defer_from(adjusted, resets, k, hold_seconds) ==
    IF k > Len(resets) THEN adjusted
    ELSE LET reset == resets[k]
             nxt == IF reset - 8 <= adjusted /\ adjusted <= reset + hold_seconds
                    THEN Max(adjusted, reset + hold_seconds)
                    ELSE adjusted
         IN  defer_from(nxt, resets, k + 1, hold_seconds)

defer_inferred_time_after_fatiha(inferred_time, resets) ==
    defer_from(inferred_time, resets, 1, 26)

\* _has_low_data_gap: acc = [prev, max_gap, covered] over the segments that
\* touch [start, end] and have at least 3 normalized characters
RECURSIVE low_data_scan(_, _, _, _, _)
low_data_scan(ts, k, start, end, acc) ==
    IF k > Len(ts) THEN acc
    ELSE LET seg == ts[k]
         IN  IF seg.e < start \/ seg.s > end \/ NormalizedLen(seg) < 3
             THEN low_data_scan(ts, k + 1, start, end, acc)
             ELSE LET left == Max(start, seg.s)
                      right == Min(end, seg.e)
                  IN  low_data_scan(ts, k + 1, start, end,
                          [prev |-> Max(acc.prev, right),
                           max_gap |-> IF left > acc.prev
                                       THEN Max(acc.max_gap, left - acc.prev)
                                       ELSE acc.max_gap,
                           covered |-> acc.covered + Max(0, right - left),
                           any |-> TRUE])

has_low_data_gap(ts, start, end, max_silence_seconds, min_density_pct) ==
    IF end <= start THEN FALSE
    ELSE With([acc \in {low_data_scan(ts, 1, start, end,
                            [prev |-> start, max_gap |-> 0, covered |-> 0, any |-> FALSE])} |->
         LET max_gap == IF end > acc.prev THEN Max(acc.max_gap, end - acc.prev)
                        ELSE acc.max_gap
         IN  IF ~acc.any THEN TRUE
             ELSE max_gap > max_silence_seconds
                  \/ acc.covered * 100 < min_density_pct * (end - start)])

\* _has_weak_local_support: the best raw score of a segment touching the window
has_weak_local_support(ts, index, window_start, window_end, ms, mo) ==
    IF index = None \/ window_end <= window_start THEN FALSE
    ELSE LET hits == {k \in DOMAIN ts :
                         /\ ~(ts[k].e < window_start \/ ts[k].s > window_end)
                         /\ HasEvidence(ts[k], index)}
         IN  IF hits = {} THEN FALSE
             ELSE With([top \in {CHOOSE k \in hits :
                                     \A j \in hits :
                                         \/ LevelScore(ts[j].ev[index]) < LevelScore(ts[k].ev[index])
                                         \/ (LevelScore(ts[j].ev[index]) = LevelScore(ts[k].ev[index]) /\ k <= j)} |->
                  /\ LevelScore(ts[top].ev[index]) >= ms
                  /\ LevelOverlap(ts[top].ev[index]) >= mo])

NoMatch == [found |-> FALSE, st |-> 0, en |-> 0, q |-> "none", cf |-> 0]

\* _find_best_ayah_timestamp: single-segment candidates need an anchor hit and
\* keep the raw score (no bonus)
find_best_ayah_timestamp(ts, index, window_start, window_end, expected_time, ms, mo, mc, ams, amc) ==
    IF window_end <= window_start THEN NoMatch
    ELSE LET hits == {k \in DOMAIN ts :
                         /\ ~(ts[k].e < window_start \/ ts[k].s > window_end)
                         /\ NormalizedLen(ts[k]) >= 10
                         /\ HasEvidence(ts[k], index)}
             sc(k) == LevelScore(ts[k].ev[index])
         IN  IF hits = {} THEN NoMatch
             ELSE With([top \in {CHOOSE k \in hits :
                                     \A j \in hits : sc(j) < sc(k) \/ (sc(j) = sc(k) /\ k <= j)} |->
                  LET top_score == sc(top)
                      second_score == SetMax({sc(j) : j \in hits \ {top}}, -1)
                      top_overlap == LevelOverlap(ts[top].ev[index])
                      times == resolve_marker_times(ts[top], [en |-> ts[top].e])
                  IN
                  With([margin \in {Max(0, top_score - Max(0, second_score))} |->
                  LET window_span == Max(1, window_end - window_start)
                      away == Min(window_span, Abs(times.st - expected_time))
                  IN
                  With([conf \in {500 * top_score + 1000 * Min(20, margin) + 20 * top_overlap
                                  + ((10000 * (window_span - away)) \div window_span)} |->
                  LET is_high == top_score >= ms /\ top_overlap >= mo /\ conf >= mc * 100
                      is_ambiguous == top_score >= ams /\ conf >= amc * 100
                  IN  IF top_score < ams \/ (~is_high /\ ~is_ambiguous) THEN NoMatch
                      ELSE [found |-> TRUE, st |-> times.st,
                            en |-> Max(times.st, times.en),
                            q |-> IF is_high THEN "high" ELSE "ambiguous",
                            cf |-> RoundDiv(conf, 100)]])])])

\* _try_wide_reground_before_infer
try_wide_reground_before_infer(ts, index, window_start, window_end, expected_time, ms, mo, mc, ams, amc) ==
    IF window_end <= window_start THEN NoMatch
    ELSE find_best_ayah_timestamp(ts, index, window_start, window_end, expected_time,
             Max(60, ms - 14), Max(40, mo - 120), Max(480, mc - 140),
             Max(58, ams - 12), Max(420, amc - 100))

\* _estimated_ayah_duration_seconds
estimated_ayah_duration_seconds(index) ==
    IF index = None THEN 8
    ELSE Max(6, Min(95, RoundDiv(EntryAt(index).tok * 48, 100)))

\* ------------------------------------------------------------------------
\* Surah-transition tail fill and forward validity
\* ------------------------------------------------------------------------
\* _build_transition_tail_markers._next_ayah_delay_seconds
next_ayah_delay_seconds(index) ==
    IF index = None THEN 8
    ELSE Max(6, Min(70, RoundDiv(EntryAt(index).tok * 45, 100)))

\* one found marker of the tail loop, clamped to [floor, window_end]
tail_found_marker(previous, ayah, best, floor, window_end) ==
    LET marker_start == Max(floor, Min(window_end, best.st))
        marker_end == Max(marker_start, Min(window_end, best.en))
    IN  Marker(marker_start, marker_end, previous.sn, ayah, best.q, best.cf)

\* the loop body of _build_transition_tail_markers for one missing ayah:
\* [add, marker]
tail_step(previous, ts, resets, window_start, window_end, n, offset, floor) ==
    LET ayah == previous.ay + offset
    IN
    With([index \in {IndexOf(previous.sn, ayah)} |->
    LET span == Max(1, window_end - window_start)
        expected == RoundDiv(window_start * (n + 1) + span * offset, n + 1)
        window_half == Max(10, RoundDiv(9 * span, 10 * (n + 1)))
        local_start == Max(floor, expected - window_half)
        local_end == Min(window_end, expected + window_half)
        relaxed_min_score == Max(66, min_score - 10)
        relaxed_min_overlap == Max(60, min_overlap - 90)
        relaxed_min_conf == Max(540, min_confidence - 100)
        relaxed_ambig_score == Max(62, ambiguous_min_score - 10)
        relaxed_ambig_conf == Max(450, ambiguous_min_confidence - 80)
    IN
    With([first \in {find_best_ayah_timestamp(ts, index, local_start, local_end, expected,
                         relaxed_min_score, relaxed_min_overlap, relaxed_min_conf,
                         relaxed_ambig_score, relaxed_ambig_conf)} |->
    With([forward_start \in {Max(floor, local_start + Max(2, RoundDiv(35 * span, 100 * (n + 1))))} |->
    With([best \in {IF first.found THEN first
                    ELSE IF window_end > forward_start
                    THEN find_best_ayah_timestamp(ts, index, forward_start, window_end,
                             Max(forward_start, expected),
                             Max(64, relaxed_min_score - 2), Max(50, relaxed_min_overlap - 20),
                             Max(520, relaxed_min_conf - 20), Max(60, relaxed_ambig_score - 2),
                             Max(440, relaxed_ambig_conf - 20))
                    ELSE NoMatch} |->
    LET inferred_time == Max(floor, Min(window_end,
                             defer_inferred_time_after_fatiha(expected, resets)))
        wide_start == Max(floor, inferred_time)
    IN
    With([wide_best \in {IF window_end > wide_start
                         THEN try_wide_reground_before_infer(ts, index, wide_start, window_end,
                                  Max(wide_start, expected), min_score, min_overlap,
                                  min_confidence, ambiguous_min_score, ambiguous_min_confidence)
                         ELSE NoMatch} |->
    With([supported \in {\/ ~require_weak_support_for_inferred
                         \/ /\ ~has_low_data_gap(ts, local_start, local_end, 16, 14)
                            /\ has_weak_local_support(ts, index, local_start, local_end,
                                   Max(58, relaxed_ambig_score - 6),
                                   Max(40, relaxed_min_overlap - 30))} |->
    LET skip == [add |-> FALSE, marker |-> Marker(0, 0, 0, 0, "none", 0)]
    IN  IF index = None \/ local_end <= local_start THEN skip
        ELSE IF best.found
        THEN [add |-> TRUE, marker |-> tail_found_marker(previous, ayah, best, floor, window_end)]
        ELSE IF wide_best.found
        THEN [add |-> TRUE, marker |-> tail_found_marker(previous, ayah, wide_best, floor, window_end)]
        ELSE IF supported
        THEN [add |-> TRUE,
              marker |-> Marker(inferred_time, inferred_time, previous.sn, ayah, "inferred", 560)]
        ELSE skip])])])])])])

RECURSIVE tail_loop(_, _, _, _, _, _, _, _, _)
tail_loop(previous, ts, resets, window_start, window_end, n, offset, floor, acc) ==
    IF offset > n THEN acc
    ELSE With([r \in {tail_step(previous, ts, resets, window_start, window_end, n, offset, floor)} |->
         IF ~r.add
         THEN tail_loop(previous, ts, resets, window_start, window_end, n,
                        offset + 1, floor, acc)
         ELSE
         With([delay_floor \in {StartOf(r.marker) + next_ayah_delay_seconds(
                                    IndexOf(previous.sn, previous.ay + offset))} |->
         LET new_floor == Max(EndOr(r.marker, r.marker.t) + 1, delay_floor)
         IN  IF new_floor >= window_end THEN Append(acc, r.marker)
             ELSE tail_loop(previous, ts, resets, window_start, window_end, n,
                            offset + 1, new_floor, Append(acc, r.marker))])])

\* _build_transition_tail_markers
build_transition_tail_markers(previous, next_index, transition_time, ts, resets) ==
    IF previous.sn = EntryAt(next_index).sn THEN <<>>
    ELSE
    IF EntryAt(next_index).sn # previous.sn + 1 THEN <<>>
    ELSE
    With([surah_total \in {SurahTotal(previous.sn, previous.ay)} |->
    LET tail_missing == surah_total - previous.ay
        window_start == EndOr(previous, previous.t) + Max(4, min_gap_seconds)
        window_end == transition_time - Max(4, min_gap_seconds)
    IN  IF surah_total <= previous.ay THEN <<>>
        ELSE IF tail_missing <= 0 \/ tail_missing > 12 THEN <<>>
        ELSE IF window_end <= window_start THEN <<>>
        ELSE tail_loop(previous, ts, resets, window_start, window_end,
                       tail_missing, 1, window_start, <<>>)])

\* a transition test that lets a move into any other surah through
is_valid_forward_transition_any_surah(previous, index, marker_time, max_jump) ==
    LET entry == EntryAt(index)
        ayah_delta == entry.ay - previous.ay
    IN  /\ marker_time - previous.t >= min_gap_seconds
        /\ previous.sn = entry.sn => ayah_delta >= 0 /\ ayah_delta <= max_jump

\* _is_valid_forward_transition (previous = None is handled by the caller)
is_valid_forward_transition(previous, index, marker_time, max_jump) ==
    LET entry == EntryAt(index)
    IN
    With([previous_total \in {SurahTotal(previous.sn, previous.ay)} |->
    LET near_end_of_previous == previous.ay >= Max(1, previous_total - 5)
        ayah_delta == entry.ay - previous.ay
    IN  /\ marker_time - previous.t >= min_gap_seconds
        /\ previous.sn # entry.sn =>
               near_end_of_previous /\ entry.sn = previous.sn + 1
        /\ previous.sn = entry.sn => ayah_delta >= 0 /\ ayah_delta <= max_jump])

\* _should_replace_existing
should_replace_existing(existing, candidate) ==
    IF quality_rank(candidate.q) > quality_rank(existing.q) THEN TRUE
    ELSE IF quality_rank(candidate.q) < quality_rank(existing.q) THEN FALSE
    ELSE IF candidate.cf > existing.cf + 30 THEN TRUE
    ELSE candidate.t < existing.t

\* ------------------------------------------------------------------------
\* match_quran_markers: candidate selection for one transcript segment
\* ------------------------------------------------------------------------
NoSelection == [idx |-> None, adj |-> 0, ov |-> 0, en |-> 0, q |-> "none", cf |-> 0,
                rec |-> FALSE]

Selection(index, cand, quality, conf, from_recovery) ==
    [idx |-> index, adj |-> cand.adj, ov |-> cand.ov, en |-> cand.en, q |-> quality,
     cf |-> conf, rec |-> from_recovery]

Candidates(seg, indices) ==
    {i \in indices : evaluate_index(seg, i) # NoCand}

\* best adjusted score among the candidates other than index (default -1)
OtherBest(seg, cands, index) ==
    SetMax({evaluate_index(seg, j).adj : j \in cands \ {index}}, -1)

\* the repeat (small rewind) test: the best rewind index or None
repeat_best_index(seg, pointer) ==
    LET lookback == Max(1, Min(8, repeat_lookback_ayahs))
    IN
    With([rewind_candidates \in {Candidates(seg, (pointer - lookback + 1) .. pointer)} |->
    With([forward_best_score \in {SetMax({evaluate_index(seg, j).adj :
                                              j \in Candidates(seg, {pointer + 1, pointer + 2})}, -1)} |->
    With([ev \in {[i \in rewind_candidates |-> evaluate_index(seg, i)]} |->
    With([v \in {[i \in rewind_candidates |->
                    candidate_is_valid(ev[i],
                        Max(0, OtherBest(seg, rewind_candidates, i)),
                        Max(min_score + 4, repeat_min_score),
                        Max(min_overlap + 40, repeat_min_overlap),
                        Max(min_confidence + 100, repeat_min_confidence), 99, 990)]} |->
    With([good \in {{i \in rewind_candidates :
                        /\ v[i].valid /\ v[i].quality = "high"
                        /\ ev[i].adj >= repeat_min_score
                        /\ ev[i].ov >= repeat_min_overlap
                        /\ v[i].conf >= repeat_min_confidence
                        /\ ev[i].adj >= forward_best_score + 1}} |->
    LET beats(i, j) == \/ v[i].conf > v[j].conf
                       \/ /\ v[i].conf = v[j].conf
                          /\ ev[i].adj > ev[j].adj
                       \/ /\ v[i].conf = v[j].conf
                          /\ ev[i].adj = ev[j].adj
                          /\ i > j
    IN  IF good = {} THEN None
        ELSE CHOOSE i \in good : \A j \in good \ {i} : beats(i, j)])])])])])

\* the repeat block: [detected, score, markers, last_marker_time]
repeat_block(seg, S) ==
    LET unchanged == [detected |-> FALSE, score |-> -1, markers |-> S.markers,
                      last_marker_time |-> S.last_marker_time]
    IN  IF ~(S.last_matched_index >= 0 /\ S.markers # <<>> /\ repeat_lookback_ayahs > 0
             /\ ~S.awaiting_reacquire)
        THEN unchanged
        ELSE
    With([index \in {repeat_best_index(seg, S.last_matched_index)} |->
    IF index = None THEN unchanged
    ELSE IF S.marker_positions[index] = 0 THEN unchanged
    ELSE LET pos == S.marker_positions[index]
             existing_marker == S.markers[pos]
         IN
         With([cand \in {evaluate_index(seg, index)} |->
         LET marker_start == StartOf(existing_marker)
             marker_end == EndOr(existing_marker, marker_start)
             repeat_gap_limit == IF S.awaiting_reacquire
                                 THEN Max(Max(8, repeat_max_gap_seconds), 900)
                                 ELSE Max(8, repeat_max_gap_seconds)
             later == {StartOf(S.markers[k]) :
                          k \in {j \in DOMAIN S.markers :
                                    /\ S.markers[j].sn = existing_marker.sn
                                    /\ S.markers[j].ay > existing_marker.ay
                                    /\ StartOf(S.markers[j]) > marker_start}}
             raw_end == Max(Max(EndOr(existing_marker, existing_marker.t),
                                resolve_marker_times(seg, cand).en), cand.en)
         IN
         With([proposed_end \in {IF later = {} THEN raw_end
                                 ELSE Min(raw_end, SetMin(later, 0) - 1)} |->
         IF seg.s - marker_end <= repeat_gap_limit
            /\ proposed_end >= marker_start
            /\ proposed_end > EndOr(existing_marker, marker_start)
         THEN [detected |-> TRUE, score |-> cand.adj,
               markers |-> [S.markers EXCEPT ![pos].en = proposed_end],
               last_marker_time |-> Max(S.last_marker_time,
                                        IF proposed_end # 0 THEN proposed_end
                                        ELSE marker_start)]
         ELSE unchanged])])])

\* first-time acquisition over the first 40 entries from the start index
acquire_selection(seg, forced) ==
    LET acquire_start == IF forced # None THEN forced ELSE 0
    IN
    With([cands \in {Candidates(seg, acquire_start .. (Min(NCorpus, acquire_start + 40) - 1))} |->
    IF cands = {} THEN NoSelection
    ELSE
    With([top_score \in {SetMax({evaluate_index(seg, i).adj : i \in cands}, -1)} |->
    With([top_index \in {SetMin({i \in cands : evaluate_index(seg, i).adj = top_score}, None)} |->
    With([v \in {candidate_is_valid(evaluate_index(seg, top_index),
                     OtherBest(seg, cands, top_index), min_score, min_overlap,
                     Max(700, min_confidence), ambiguous_min_score, ambiguous_min_confidence)} |->
    IF v.valid THEN Selection(top_index, evaluate_index(seg, top_index),
                              v.quality, v.conf, FALSE)
    ELSE NoSelection])])])])

\* forward matching that also accepts the pointer's own entry (jump 0)
normal_selection_from_pointer(seg, S) ==
    LET expected == S.last_matched_index + 1
    IN
    With([normal_candidates \in {Candidates(seg, (expected - 1) .. (expected + 2))} |->
    With([v \in {[i \in normal_candidates |->
                    candidate_is_valid(evaluate_index(seg, i),
                        OtherBest(seg, normal_candidates, i), min_score, min_overlap,
                        min_confidence, ambiguous_min_score, ambiguous_min_confidence)]} |->
    With([fit \in {{i \in normal_candidates :
                       /\ v[i].valid
                       /\ i - S.last_matched_index >= 0
                       /\ i - S.last_matched_index <= max_forward_jump_ayahs}} |->
    IF fit = {} THEN NoSelection
    ELSE LET index == SetMin(fit, None)
         IN  Selection(index, evaluate_index(seg, index), v[index].quality,
                       v[index].conf, FALSE)])])])

\* normal forward matching: the first valid index in pointer .. pointer + 3
\* whose jump is within the local forward limit
normal_selection(seg, S) ==
    LET expected == S.last_matched_index + 1
        local_max_forward_jump ==
            IF S.awaiting_reacquire \/ S.reacquire_lock_ayahs_remaining > 0
            THEN 1 ELSE max_forward_jump_ayahs
    IN
    With([normal_candidates \in {Candidates(seg, (expected - 1) .. (expected + 2))} |->
    With([v \in {[i \in normal_candidates |->
                    candidate_is_valid(evaluate_index(seg, i),
                        OtherBest(seg, normal_candidates, i), min_score, min_overlap,
                        min_confidence, ambiguous_min_score, ambiguous_min_confidence)]} |->
    With([fit \in {{i \in normal_candidates :
                       /\ v[i].valid
                       /\ i - S.last_matched_index >= 1
                       /\ i - S.last_matched_index <= local_max_forward_jump}} |->
    IF fit = {} THEN NoSelection
    ELSE LET index == SetMin(fit, None)
         IN  Selection(index, evaluate_index(seg, index), v[index].quality,
                       v[index].conf, FALSE)])])])

\* long-jump recovery scan, in index order; best = [idx, adj, cf]
RECURSIVE recovery_scan(_, _, _, _, _)
recovery_scan(seg, S, index, recovery_end, best) ==
    IF index >= recovery_end THEN best
    ELSE With([cand \in {evaluate_index(seg, index)} |->
         LET rival == IF best.idx # None THEN best.adj ELSE -1
         IN
         With([v \in {candidate_is_valid(cand, rival, Max(min_score, 80), Max(min_overlap, 200),
                          Max(min_confidence, 720), Max(ambiguous_min_score, 78),
                          Max(ambiguous_min_confidence, 680))} |->
         LET jump == index - S.last_matched_index
             ok == /\ cand # NoCand
                   /\ v.valid
                   /\ jump >= 1
                   /\ jump <= max_recovery_jump_ayahs
                   /\ S.last_marker_time >= 0 =>
                          cand.st - S.last_marker_time >= Max(10, jump * 2)
                   /\ ~(cand.adj < 80 \/ cand.ov < 200 \/ v.conf < 720)
         IN  IF ok /\ (best.idx = None \/ cand.adj > best.adj)
             THEN recovery_scan(seg, S, index + 1, recovery_end,
                                [idx |-> index, adj |-> cand.adj, cf |-> v.conf])
             ELSE recovery_scan(seg, S, index + 1, recovery_end, best)])])

recovery_selection(seg, S) ==
    LET recovery_start == Max(S.last_matched_index + 1, 0)
    IN  IF S.awaiting_reacquire \/ S.reacquire_lock_ayahs_remaining > 0 THEN NoSelection
        ELSE
    With([best \in {recovery_scan(seg, S, recovery_start, Min(NCorpus, recovery_start + 60),
                                  [idx |-> None, adj |-> 0, cf |-> 0])} |->
    IF best.idx = None THEN NoSelection
    ELSE Selection(best.idx, evaluate_index(seg, best.idx), "high",
                   Max(720, best.cf), TRUE)])

\* selection for the segment: acquisition, else forward, else recovery
select_candidate(seg, S) ==
    IF S.last_matched_index < 0 THEN acquire_selection(seg, S.forced_start_index)
    ELSE IF normal_selection(seg, S).idx # None THEN normal_selection(seg, S)
    ELSE recovery_selection(seg, S)

\* ------------------------------------------------------------------------
\* match_quran_markers: the loop body
\* ------------------------------------------------------------------------
\* upsert of the tail markers into markers / marker_positions
RECURSIVE tail_upsert(_, _, _, _)
tail_upsert(ms, positions, tails, k) ==
    IF k > Len(tails) THEN [markers |-> ms, marker_positions |-> positions]
    ELSE LET tail_marker == tails[k]
         IN
         With([index \in {IndexOf(tail_marker.sn, tail_marker.ay)} |->
         LET pos == positions[index]
         IN  IF pos # 0 /\ pos <= Len(ms)
             THEN IF should_replace_existing(ms[pos], tail_marker)
                  THEN tail_upsert([ms EXCEPT ![pos] = tail_marker], positions, tails, k + 1)
                  ELSE tail_upsert(ms, positions, tails, k + 1)
             ELSE tail_upsert(Append(ms, tail_marker),
                              [positions EXCEPT ![index] = Len(ms) + 1], tails, k + 1)])

\* max(tail_markers, key=(ayah, time)): the first maximal element
MaxByAyahTime(tails) ==
    LET better(i, j) == \/ tails[i].ay > tails[j].ay
                        \/ (tails[i].ay = tails[j].ay /\ tails[i].t > tails[j].t)
                        \/ (tails[i].ay = tails[j].ay /\ tails[i].t = tails[j].t /\ i < j)
    IN  tails[CHOOSE i \in DOMAIN tails : \A j \in DOMAIN tails \ {i} : better(i, j)]

\* the part of the loop body after a candidate was selected and survived the
\* repeat and strict re-acquire rejections (lines 3076-3171)
emit_selected(seg, S, sel) ==
    LET index == sel.idx
        entry == EntryAt(index)
        has_previous == S.markers # <<>>
        previous_marker == S.markers[Len(S.markers)]
        times == resolve_marker_times(seg, [en |-> sel.en])
        marker_start == times.st
        marker_end == Max(marker_start, times.en)
        cross == has_previous /\ previous_marker.sn # entry.sn
    IN
    With([tail_markers \in {IF cross
                            THEN build_transition_tail_markers(previous_marker, index,
                                     marker_start, S.transcript, S.fatiha_reset_times)
                            ELSE <<>>} |->
    With([up \in {tail_upsert(S.markers, S.marker_positions, tail_markers, 1)} |->
    LET previous_for_transition == IF tail_markers # <<>> THEN MaxByAyahTime(tail_markers)
                                   ELSE previous_marker
    IN
    With([tail_rejected \in {cross /\ previous_for_transition.ay
                                          < SurahTotal(previous_marker.sn, previous_marker.ay)} |->
    IF tail_rejected
    THEN [S EXCEPT !.markers = up.markers, !.marker_positions = up.marker_positions,
                   !.stale_segments = S.stale_segments + 1,
                   !.outcome = "tail_reject"]
    ELSE
    With([transition_ok \in {\/ ~has_previous
                             \/ is_valid_forward_transition(previous_for_transition, index, marker_start,
                                    IF sel.rec THEN max_recovery_jump_ayahs ELSE max_forward_jump_ayahs)} |->
    IF ~transition_ok
    THEN [S EXCEPT !.markers = up.markers, !.marker_positions = up.marker_positions,
                   !.stale_segments = S.stale_segments + 1,
                   !.outcome = "transition_reject"]
    ELSE
    With([marker_candidate \in {Marker(marker_start, marker_end, entry.sn, entry.ay, sel.q, sel.cf)} |->
    LET pos == up.marker_positions[index]
        within == pos # 0 /\ Abs(marker_candidate.t - up.markers[pos].t)
                                 <= duplicate_ayah_window_seconds
    IN
    With([replaces \in {within /\ should_replace_existing(up.markers[pos], marker_candidate)} |->
    LET new_markers == IF within
                       THEN IF replaces THEN [up.markers EXCEPT ![pos] = marker_candidate]
                            ELSE up.markers
                       ELSE Append(up.markers, marker_candidate)
        new_positions == IF within THEN up.marker_positions
                         ELSE [up.marker_positions EXCEPT ![index] = Len(up.markers) + 1]
        accepted_marker == IF within /\ ~replaces THEN up.markers[pos] ELSE marker_candidate
    IN  [S EXCEPT !.markers = new_markers, !.marker_positions = new_positions,
                  !.last_matched_index = Max(S.last_matched_index, index),
                  !.last_marker_time = Max(S.last_marker_time, accepted_marker.t),
                  !.awaiting_reacquire = FALSE,
                  !.pause_reacquire_until = None,
                  !.reacquire_lock_ayahs_remaining =
                      IF S.reacquire_lock_ayahs_remaining > 0
                      THEN S.reacquire_lock_ayahs_remaining - 1
                      ELSE S.reacquire_lock_ayahs_remaining,
                  !.stale_segments = 0,
                  !.outcome = "emit",
                  !.emitted = index]])])])])])])

\* matching that goes on to emit although a repeat was detected
match_text_segment_after_repeat(seg, S) ==
    With([rep \in {repeat_block(seg, S)} |->
    LET S1 == [S EXCEPT !.markers = rep.markers,
                        !.last_marker_time = rep.last_marker_time,
                        !.repeated = rep.detected]
    IN
    With([sel \in {select_candidate(seg, S1)} |->
    IF sel.idx = None
    THEN IF rep.detected
         THEN [S1 EXCEPT !.stale_segments = 0, !.outcome = "repeat"]
         ELSE [S1 EXCEPT !.stale_segments = S.stale_segments + 1, !.outcome = "stale"]
    ELSE emit_selected(seg, S1, sel)])])

\* a text segment that is neither held nor too short (lines 2796-3171)
match_text_segment(seg, S) ==
    With([rep \in {repeat_block(seg, S)} |->
    LET S1 == [S EXCEPT !.markers = rep.markers,
                        !.last_marker_time = rep.last_marker_time,
                        !.repeated = rep.detected]
    IN
    With([sel \in {select_candidate(seg, S1)} |->
    LET strict_reacquire_score == Max(82, min_score + 4)
        strict_reacquire_overlap == Max(220, min_overlap + 40)
        strict_reacquire_conf == Max(780, min_confidence + 120)
    IN  IF sel.idx = None
        THEN IF rep.detected
             THEN [S1 EXCEPT !.stale_segments = 0, !.outcome = "repeat"]
             ELSE [S1 EXCEPT !.stale_segments = S.stale_segments + 1, !.outcome = "stale"]
        ELSE IF rep.detected /\ sel.adj < rep.score + 1
        THEN [S1 EXCEPT !.stale_segments = 0, !.outcome = "repeat"]
        ELSE IF S1.awaiting_reacquire
                /\ (\/ sel.q # "high"
                    \/ sel.adj < strict_reacquire_score
                    \/ sel.ov < strict_reacquire_overlap
                    \/ sel.cf < strict_reacquire_conf)
        THEN [S1 EXCEPT !.stale_segments = S.stale_segments + 1,
                        !.outcome = "strict_reject"]
        ELSE emit_selected(seg, S1, sel)])])

\* the state changes at the top of the loop body: re-anchor points that fall
\* due at this segment (ra = the index of the last one, or None) and the
\* long-break test (lines 2681-2696)
loop_prelude(seg, S, ra) ==
    LET S1 == IF ra = None THEN S
              ELSE [S EXCEPT !.last_matched_index = ra - 1,
                             !.awaiting_reacquire = TRUE,
                             !.pause_reacquire_until = None,
                             !.reacquire_lock_ayahs_remaining =
                                 Max(S.reacquire_lock_ayahs_remaining, 8)]
        long_break == /\ S.previous_segment_end # None
                      /\ seg.s - S.previous_segment_end
                             >= Max(30, long_break_reacquire_seconds)
    IN
    With([S2 \in {IF long_break
                  THEN [S1 EXCEPT !.awaiting_reacquire = TRUE,
                                  !.pause_reacquire_until = None,
                                  !.reacquire_lock_ayahs_remaining =
                                      Max(S1.reacquire_lock_ayahs_remaining, 8)]
                  ELSE S1} |->
    [S2 EXCEPT !.previous_segment_end = seg.e,
               !.transcript = Append(S.transcript, seg),
               !.repeated = FALSE, !.emitted = None, !.outcome = "none"]])

\* a loop iteration that matches a text segment whether or not the hold after
\* a non-recitation segment is still running
loop_body_without_hold(seg, S, ra) ==
    With([F \in {is_fatiha_like_segment(seg, S.FATIHA_HINTS_NORM)} |->
    With([PF \in {[loop_prelude(seg, S, ra) EXCEPT !.FATIHA_HINTS_NORM = F.memo]} |->
    IF F.result
    THEN [PF EXCEPT !.fatiha_reset_times = Append(PF.fatiha_reset_times, seg.s),
                    !.awaiting_reacquire = TRUE,
                    !.reacquire_lock_ayahs_remaining =
                        Max(PF.reacquire_lock_ayahs_remaining, 8),
                    !.outcome = "fatiha"]
    ELSE
    With([N \in {is_non_recitation_segment(seg, S.NON_RECITATION_HINTS_NORM)} |->
    With([P \in {[PF EXCEPT !.NON_RECITATION_HINTS_NORM = N.memo]} |->
    IF N.result
    THEN [P EXCEPT !.fatiha_reset_times = Append(P.fatiha_reset_times, seg.s),
                   !.pause_reacquire_until =
                       seg.e + Max(8, non_recitation_hold_seconds),
                   !.awaiting_reacquire = TRUE,
                   !.reacquire_lock_ayahs_remaining =
                       Max(P.reacquire_lock_ayahs_remaining, 8),
                   !.outcome = "nonrec"]
    ELSE IF NormalizedLen(seg) < 14
    THEN [P EXCEPT !.outcome = "short"]
    ELSE match_text_segment(seg, P)])])])])

\* one iteration of the loop over transcript_segments (lines 2678-3171)
loop_body(seg, S, ra) ==
    With([F \in {is_fatiha_like_segment(seg, S.FATIHA_HINTS_NORM)} |->
    With([PF \in {[loop_prelude(seg, S, ra) EXCEPT !.FATIHA_HINTS_NORM = F.memo]} |->
    IF F.result
    THEN [PF EXCEPT !.fatiha_reset_times = Append(PF.fatiha_reset_times, seg.s),
                    !.awaiting_reacquire = TRUE,
                    !.reacquire_lock_ayahs_remaining =
                        Max(PF.reacquire_lock_ayahs_remaining, 8),
                    !.outcome = "fatiha"]
    ELSE
    With([N \in {is_non_recitation_segment(seg, S.NON_RECITATION_HINTS_NORM)} |->
    With([P \in {[PF EXCEPT !.NON_RECITATION_HINTS_NORM = N.memo]} |->
    IF N.result
    THEN [P EXCEPT !.fatiha_reset_times = Append(P.fatiha_reset_times, seg.s),
                   !.pause_reacquire_until =
                       seg.e + Max(8, non_recitation_hold_seconds),
                   !.awaiting_reacquire = TRUE,
                   !.reacquire_lock_ayahs_remaining =
                       Max(P.reacquire_lock_ayahs_remaining, 8),
                   !.outcome = "nonrec"]
    ELSE IF P.pause_reacquire_until # None /\ seg.s <= P.pause_reacquire_until
    THEN [P EXCEPT !.outcome = "held"]
    ELSE IF NormalizedLen(seg) < 14
    THEN [P EXCEPT !.outcome = "short"]
    ELSE match_text_segment(seg, P)])])])])

\* ------------------------------------------------------------------------
\* Gap fill between anchored markers (lines 3173-3596)
\* ------------------------------------------------------------------------
NoMarker == Marker(0, 0, 0, 0, "none", 0)

\* Python "marker.confidence or d"
ConfOr(m, d) == IF m.cf # 0 THEN m.cf ELSE d

\* a found timestamp clamped into [lo, hi] as the gap filler does
bounded_marker(best, lo, hi, sn, ayah) ==
    LET st == Max(lo, Min(hi, best.st))
    IN  Marker(st, Max(st, Min(hi, best.en)), sn, ayah, best.q, best.cf)

\* _recover_missing_gap_with_search: the loop over the missing ayat
RECURSIVE recover_loop(_, _, _, _, _, _, _, _)
recover_loop(left, right, ts, floor_time, exhaustive, ayah, cursor, recovered) ==
    LET window_start_limit == left.t + min_gap_seconds
        window_end_limit == right.t - min_gap_seconds
        n == right.ay - left.ay - 1
        span == Max(1, right.t - left.t)
    IN  IF ayah >= right.ay THEN recovered
        ELSE
    With([index \in {IndexOf(left.sn, ayah)} |->
    LET D == Max(1, right.ay - left.ay)
        expected == RoundDiv(left.t * D + span * (ayah - left.ay), D)
        half == Max(20, RoundDiv(span, Max(6, n)))
        floor_or == IF floor_time # None /\ floor_time # 0 THEN floor_time
                    ELSE window_start_limit
    IN
    With([search_start \in {IF exhaustive THEN Max(cursor, floor_or)
                            ELSE IF floor_time # None
                            THEN Max(Max(cursor, expected - half), floor_time)
                            ELSE Max(cursor, expected - half)} |->
    With([search_end \in {IF exhaustive THEN window_end_limit
                          ELSE Min(window_end_limit, expected + half * 2)} |->
    With([best \in {find_best_ayah_timestamp(ts, index, search_start, search_end,
                        Max(search_start, Min(search_end, expected)),
                        Max(IF exhaustive THEN 68 ELSE 72,
                            min_score - (IF exhaustive THEN 8 ELSE 4)),
                        Max(IF exhaustive THEN 60 ELSE 100, min_overlap - 80),
                        Max(IF exhaustive THEN 500 ELSE 560, min_confidence - 100),
                        Max(IF exhaustive THEN 64 ELSE 68, ambiguous_min_score - 6),
                        Max(IF exhaustive THEN 460 ELSE 500, ambiguous_min_confidence - 20))} |->
    LET matched_time == Max(search_start, Min(search_end, best.st))
        matched_end == Max(matched_time, Min(search_end, best.en))
    IN
    With([unsupported \in {/\ require_weak_support_for_inferred
                           /\ best.q = "ambiguous"
                           /\ ~has_weak_local_support(ts, index,
                                   Max(window_start_limit, matched_time - 14),
                                   Min(window_end_limit, matched_time + 14),
                                   Max(62, ambiguous_min_score - 8), Max(80, min_overlap - 60))} |->
    LET new_cursor == Max(cursor + 1, matched_time + 2)
        next(c, r) == recover_loop(left, right, ts, floor_time, exhaustive, ayah + 1, c, r)
    IN  IF index = None \/ search_end <= search_start THEN next(cursor, recovered)
        ELSE IF ~best.found \/ unsupported THEN next(cursor, recovered)
        ELSE IF new_cursor >= window_end_limit
        THEN Append(recovered, Marker(matched_time, matched_end, left.sn, ayah, best.q, best.cf))
        ELSE next(new_cursor,
                  Append(recovered, Marker(matched_time, matched_end, left.sn, ayah,
                                           best.q, best.cf)))])])])])])

recover_missing_gap_with_search(left, right, ts, floor_time, exhaustive) ==
    IF right.t - min_gap_seconds <= left.t + min_gap_seconds THEN <<>>
    ELSE IF right.ay - left.ay - 1 <= 0 THEN <<>>
    ELSE recover_loop(left, right, ts, floor_time, exhaustive, left.ay + 1,
                      left.t + min_gap_seconds, <<>>)

\* "if key in keyed_markers: continue; append; keyed_markers[key] = marker"
RECURSIVE add_unkeyed(_, _, _)
add_unkeyed(acc, found, k) ==
    IF k > Len(found) THEN acc
    ELSE With([index \in {IndexOf(found[k].sn, found[k].ay)} |->
         IF acc.keyed[index] # NoMarker THEN add_unkeyed(acc, found, k + 1)
         ELSE add_unkeyed([inferred |-> Append(acc.inferred, found[k]),
                           keyed |-> [acc.keyed EXCEPT ![index] = found[k]]],
                          found, k + 1)])

\* long_ayah_hold of the previous ayah (num / den is the step in seconds)
long_ayah_hold(sn, prev_ayah, num, den) ==
    With([previous_duration \in {estimated_ayah_duration_seconds(IndexOf(sn, prev_ayah))} |->
    IF previous_duration >= 28 THEN RoundDiv(previous_duration * 72, 100)
    ELSE Max(6, RoundDiv(7 * num, 10 * den))])

\* the fallback interpolation after a reset when the search found nothing
\* (lines 3245-3385); st = [prev_time, prev_ayah, acc]
fallback_step_for(left, right, ts, resets, search_floor, ayah, st) ==
    LET missing_count == right.ay - left.ay - 1
        den == missing_count + 1
        fallback_window_start == left.t + min_gap_seconds
        fallback_window_end == right.t - min_gap_seconds
        fallback_start == Max(fallback_window_start, search_floor)
        fallback_span == right.t - fallback_start
        strong_bridge == is_strong_anchor_marker(left) /\ is_strong_anchor_marker(right)
    IN
    With([index \in {IndexOf(left.sn, ayah)} |->
    LET offset_idx == ayah - left.ay
    IN  IF index # None /\ st.acc.keyed[index] # NoMarker
        THEN [st EXCEPT !.prev_ayah = ayah, !.prev_time = StartOf(st.acc.keyed[index])]
        ELSE
    With([start_floor_from_previous \in {st.prev_time + long_ayah_hold(left.sn, st.prev_ayah, fallback_span, den)} |->
    LET expected_time == RoundDiv(fallback_start * den + fallback_span * offset_idx, den)
        forward_start == Max(Max(fallback_window_start, expected_time),
                             start_floor_from_previous)
    IN
    With([best_forward \in {IF index # None /\ strong_bridge /\ fallback_window_end > forward_start
                            THEN find_best_ayah_timestamp(ts, index, forward_start, fallback_window_end,
                                     expected_time, Max(66, min_score - 10), Max(50, min_overlap - 100),
                                     Max(540, min_confidence - 100), Max(62, ambiguous_min_score - 10),
                                     Max(450, ambiguous_min_confidence - 80))
                            ELSE NoMatch} |->
    With([inferred_time \in {Max(fallback_window_start,
                                 Min(fallback_window_end,
                                     Max(defer_inferred_time_after_fatiha(expected_time, resets),
                                         start_floor_from_previous)))} |->
    LET wide_start == Max(fallback_window_start, inferred_time)
    IN
    With([wide_best \in {IF index # None /\ fallback_window_end > wide_start
                         THEN try_wide_reground_before_infer(ts, index, wide_start, fallback_window_end,
                                  Max(wide_start, inferred_time), min_score, min_overlap, min_confidence,
                                  ambiguous_min_score, ambiguous_min_confidence)
                         ELSE NoMatch} |->
    LET reach == Max(12, RoundDiv(fallback_span, den))
        support_start == Max(fallback_window_start, inferred_time - reach)
        support_end == Min(fallback_window_end, inferred_time + reach)
    IN
    With([unsupported \in {/\ index # None /\ require_weak_support_for_inferred
                           /\ \/ has_low_data_gap(ts, support_start, support_end, 16, 14)
                              \/ ~has_weak_local_support(ts, index, support_start, support_end,
                                      Max(60, ambiguous_min_score - 8), Max(70, min_overlap - 50))} |->
    LET add(m) == [prev_time |-> StartOf(m), prev_ayah |-> ayah,
                   acc |-> [inferred |-> Append(st.acc.inferred, m),
                            keyed |-> [st.acc.keyed EXCEPT ![index] = m]]]
    IN  IF best_forward.found
        THEN add(bounded_marker(best_forward, fallback_window_start, fallback_window_end,
                                left.sn, ayah))
        ELSE IF inferred_time > fallback_window_end THEN st
        ELSE IF wide_best.found
        THEN add(bounded_marker(wide_best, fallback_window_start, fallback_window_end,
                                left.sn, ayah))
        ELSE IF unsupported THEN st
        ELSE add(Marker(inferred_time, inferred_time, left.sn, ayah, "inferred",
                        Min(Min(ConfOr(left, 560), ConfOr(right, 560)), 560)))])])])])])])

RECURSIVE fallback_loop(_, _, _, _, _, _, _)
fallback_loop(left, right, ts, resets, search_floor, ayah, st) ==
    IF ayah >= right.ay THEN st.acc
    ELSE fallback_loop(left, right, ts, resets, search_floor, ayah + 1,
             fallback_step_for(left, right, ts, resets, search_floor, ayah, st))

\* the plain interpolation between two anchors (lines 3416-3596)
rolling_step_for(left, right, ts, resets, ayah, st) ==
    LET missing_count == right.ay - left.ay - 1
        den == missing_count + 1
        gap_seconds == right.t - left.t
        strong_bridge == is_strong_anchor_marker(left) /\ is_strong_anchor_marker(right)
    IN
    With([index \in {IndexOf(left.sn, ayah)} |->
    LET offset == ayah - left.ay
        expected_time == RoundDiv(left.t * den + gap_seconds * offset, den)
        window_half == Max(10, RoundDiv(8 * gap_seconds, 10 * den))
        window_start == Max(left.t + min_gap_seconds, expected_time - window_half)
        window_end == Min(right.t - min_gap_seconds, expected_time + window_half)
    IN  IF index # None /\ st.acc.keyed[index] # NoMarker
        THEN [st EXCEPT !.prev_ayah = ayah, !.prev_time = StartOf(st.acc.keyed[index])]
        ELSE
    With([start_floor_from_previous \in {st.prev_time + long_ayah_hold(left.sn, st.prev_ayah, gap_seconds, den)} |->
    With([inferred_time \in {Max(Max(window_start,
                                     Min(window_end, defer_inferred_time_after_fatiha(expected_time, resets))),
                                 start_floor_from_previous)} |->
    LET far_end == right.t - min_gap_seconds
        wide_start == Max(window_start, inferred_time)
    IN  IF inferred_time > window_end THEN st
        ELSE
    With([wide_best_general \in {IF index # None /\ far_end > wide_start
                                 THEN try_wide_reground_before_infer(ts, index, wide_start, far_end,
                                          Max(wide_start, inferred_time), min_score, min_overlap, min_confidence,
                                          ambiguous_min_score, ambiguous_min_confidence)
                                 ELSE NoMatch} |->
    With([general_start \in {Max(Max(window_start,
                                     inferred_time + Max(2, RoundDiv(35 * gap_seconds, 100 * den))),
                                 start_floor_from_previous)} |->
    With([best_forward_general \in {IF index # None /\ far_end > general_start
                                    THEN find_best_ayah_timestamp(ts, index, general_start, far_end,
                                             Max(general_start, inferred_time),
                                             Max(64, min_score - 10), Max(50, min_overlap - 100),
                                             Max(520, min_confidence - 100), Max(60, ambiguous_min_score - 10),
                                             Max(440, ambiguous_min_confidence - 80))
                                    ELSE NoMatch} |->
    With([bridge_start \in {Max(Max(window_start, inferred_time), start_floor_from_previous)} |->
    With([best_forward \in {IF index # None /\ strong_bridge /\ far_end > bridge_start
                            THEN find_best_ayah_timestamp(ts, index, bridge_start, far_end, inferred_time,
                                     Max(66, min_score - 10), Max(50, min_overlap - 100),
                                     Max(540, min_confidence - 100), Max(62, ambiguous_min_score - 10),
                                     Max(450, ambiguous_min_confidence - 80))
                            ELSE NoMatch} |->
    LET reach == Max(12, RoundDiv(gap_seconds, den))
        support_start == Max(left.t + min_gap_seconds, inferred_time - reach)
        support_end == Min(right.t - min_gap_seconds, inferred_time + reach)
    IN
    With([unsupported \in {/\ index # None /\ require_weak_support_for_inferred
                           /\ \/ has_low_data_gap(ts, support_start, support_end, 16, 14)
                              \/ ~has_weak_local_support(ts, index, support_start, support_end,
                                      Max(60, ambiguous_min_score - 8), Max(70, min_overlap - 50))} |->
    LET add(m) == [prev_time |-> StartOf(m), prev_ayah |-> ayah,
                   acc |-> [inferred |-> Append(st.acc.inferred, m),
                            keyed |-> [st.acc.keyed EXCEPT ![index] = m]]]
    IN  IF wide_best_general.found
        THEN add(bounded_marker(wide_best_general, window_start, window_end, left.sn, ayah))
        ELSE IF best_forward_general.found
        THEN add(bounded_marker(best_forward_general, window_start, window_end, left.sn, ayah))
        ELSE IF best_forward.found
        THEN add(bounded_marker(best_forward, window_start, window_end, left.sn, ayah))
        ELSE IF unsupported THEN st
        ELSE add(Marker(inferred_time, inferred_time, left.sn, ayah, "inferred",
                        Min(Min(ConfOr(left, 580), ConfOr(right, 580)), 600)))])])])])])])])])])

RECURSIVE rolling_loop(_, _, _, _, _, _)
rolling_loop(left, right, ts, resets, ayah, st) ==
    IF ayah >= right.ay THEN st.acc
    ELSE rolling_loop(left, right, ts, resets, ayah + 1,
                      rolling_step_for(left, right, ts, resets, ayah, st))

\* the body of "for left, right in zip(anchors, anchors[1:])"
gap_fill_pair(left, right, ts, resets, acc) ==
    LET missing_count == right.ay - left.ay - 1
        gap_seconds == right.t - left.t
        resets_between == reset_points_between(resets, left.t, right.t)
        search_floor == SetMin(resets_between, 0) + Max(6, min_gap_seconds)
    IN  IF left.sn # right.sn
        THEN add_unkeyed(acc,
                 build_transition_tail_markers(left, IndexOf(right.sn, right.ay), right.t,
                                               ts, resets), 1)
        ELSE
    IF left.ay >= right.ay \/ missing_count <= 0 THEN acc
    ELSE
    IF gap_seconds <= min_gap_seconds \/ gap_seconds > max_infer_gap_seconds THEN acc
    ELSE
    With([searched \in {recover_missing_gap_with_search(left, right, ts, search_floor, TRUE)} |->
    LET fallback_start == Max(left.t + min_gap_seconds, search_floor)
        fallback_span == right.t - fallback_start
        start_state == [prev_time |-> left.t, prev_ayah |-> left.ay, acc |-> acc]
    IN  IF resets_between # {}
        THEN IF searched # <<>> THEN add_unkeyed(acc, searched, 1)
             ELSE IF fallback_span > min_gap_seconds
                     /\ fallback_span >= min_infer_step_seconds * (missing_count + 1)
             THEN fallback_loop(left, right, ts, resets, search_floor, left.ay + 1,
                                start_state)
             ELSE acc
        ELSE IF has_low_data_gap(ts, left.t, right.t, 20, 7) THEN acc
        ELSE IF \/ missing_count > max_infer_gap_ayahs
                \/ gap_seconds < min_infer_step_seconds * (missing_count + 1)
                \/ gap_seconds > max_infer_step_seconds * (missing_count + 1)
        THEN add_unkeyed(acc, recover_missing_gap_with_search(left, right, ts, None, FALSE), 1)
        ELSE rolling_loop(left, right, ts, resets, left.ay + 1, start_state)])

RECURSIVE gap_fill_pairs(_, _, _, _, _)
gap_fill_pairs(anchors, ts, resets, k, acc) ==
    IF k >= Len(anchors) THEN acc
    ELSE gap_fill_pairs(anchors, ts, resets, k + 1,
                        gap_fill_pair(anchors[k], anchors[k + 1], ts, resets, acc))

\* filter of a sequence by marker quality
RECURSIVE AnchorsOf(_)
AnchorsOf(ms) ==
    IF ms = <<>> THEN <<>>
    ELSE IF is_anchor_quality(Head(ms).q) THEN <<Head(ms)>> \o AnchorsOf(Tail(ms))
    ELSE AnchorsOf(Tail(ms))

\* keyed_markers = {(surah, ayah): marker}: the last marker of a key wins
KeyedMarkers(ms) ==
    [i \in CorpusIdx |->
        With([hits \in {{k \in DOMAIN ms : ms[k].sn = EntryAt(i).sn /\ ms[k].ay = EntryAt(i).ay}} |->
        IF hits = {} THEN NoMarker ELSE ms[SetMax(hits, 0)]])]

\* ------------------------------------------------------------------------
\* Leading backfill before the first anchor of each surah (lines 3598-3705)
\* ------------------------------------------------------------------------
leading_step_for(first, anchors, ts, resets, ayah_number, acc) ==
    LET later == {k \in DOMAIN anchors : /\ anchors[k].sn = first.sn
                                         /\ anchors[k].ay > first.ay
                                         /\ anchors[k].t > first.t}
        next_same_surah == anchors[SetMin(later, 0)]
    IN
    With([time_step \in {IF later = {} THEN 8
                         ELSE Max(4, Min(18, RoundDiv(Max(1, next_same_surah.t - first.t),
                                                      Max(1, next_same_surah.ay - first.ay))))} |->
    With([index \in {IndexOf(first.sn, ayah_number)} |->
    LET offset == first.ay - ayah_number
        leading_step == Max(4, Min(8, time_step))
        expected_time == Max(0, first.t - leading_step * offset)
        window_half == Max(8, time_step)
        window_start == Max(0, expected_time - window_half)
        window_end == Min(Max(0, first.t - min_gap_seconds), expected_time + window_half)
    IN  IF index # None /\ acc.keyed[index] # NoMarker THEN acc
        ELSE
    IF window_end <= window_start THEN acc
    ELSE
    With([best \in {IF index # None
                    THEN find_best_ayah_timestamp(ts, index, window_start, window_end,
                             expected_time, min_score, Max(min_overlap, 180), min_confidence,
                             ambiguous_min_score, ambiguous_min_confidence)
                    ELSE NoMatch} |->
    With([deferred \in {Max(window_start,
                            Min(window_end, defer_inferred_time_after_fatiha(expected_time, resets)))} |->
    LET add(m) == [inferred |-> Append(acc.inferred, m),
                   keyed |-> [acc.keyed EXCEPT ![index] = m]]
    IN  IF best.found
        THEN add(bounded_marker(best, window_start, window_end, first.sn, ayah_number))
        ELSE IF ~allow_unverified_leading_infer THEN acc
        ELSE IF require_weak_support_for_inferred
                /\ ~has_weak_local_support(ts, index, window_start, window_end,
                        Max(60, ambiguous_min_score - 8), Max(70, min_overlap - 50))
        THEN acc
        ELSE add(Marker(deferred, deferred, first.sn, ayah_number, "inferred",
                        Min(ConfOr(first, 580), 580)))])])])])

RECURSIVE leading_loop(_, _, _, _, _, _)
leading_loop(first, anchors, ts, resets, ayah_number, acc) ==
    IF ayah_number < 1 THEN acc
    ELSE leading_loop(first, anchors, ts, resets, ayah_number - 1,
                      leading_step_for(first, anchors, ts, resets, ayah_number, acc))

RECURSIVE leading_backfill(_, _, _, _, _)
leading_backfill(anchors, ts, resets, k, acc) ==
    IF k > Len(anchors) THEN acc
    ELSE LET first == anchors[k]
             seen == \E j \in 1 .. (k - 1) : anchors[j].sn = first.sn
         IN  IF seen \/ first.ay <= 1 \/ first.ay - 1 > max_leading_infer_ayahs
             THEN leading_backfill(anchors, ts, resets, k + 1, acc)
             ELSE leading_backfill(anchors, ts, resets, k + 1,
                      leading_loop(first, anchors, ts, resets, first.ay - 1, acc))

\* a gap fill that starts an empty list with an inferred first ayah
merged_after_gap_fill_seeding(ms, ts, resets) ==
    IF ms = <<>> /\ ts # <<>>
    THEN <<Marker(ts[1].s, ts[1].s, EntryAt(0).sn, EntryAt(0).ay, "inferred", 560)>>
    ELSE ms

\* markers + inferred_markers (line 3707)
merged_after_gap_fill(ms, ts, resets) ==
    With([anchors \in {AnchorsOf(SortedBy(ms, "time"))} |->
    With([filled \in {gap_fill_pairs(anchors, ts, resets, 1,
                                     [inferred |-> <<>>, keyed |-> KeyedMarkers(ms)])} |->
    With([led \in {leading_backfill(anchors, ts, resets, 1, filled)} |->
    ms \o led.inferred])])])

\* ------------------------------------------------------------------------
\* Post-processors
\* ------------------------------------------------------------------------
\* the markers of one surah keyed by ayah, as the passes build it from the
\* time-sorted list: higher rank wins, equal rank keeps the earlier marker
AyahMap(sorted_ms, sn) ==
    LET ayahs == {sorted_ms[k].ay : k \in {j \in DOMAIN sorted_ms : sorted_ms[j].sn = sn}}
        of(ay) == {k \in DOMAIN sorted_ms : sorted_ms[k].sn = sn /\ sorted_ms[k].ay = ay}
        top(ay) == SetMax({quality_rank(sorted_ms[k].q) : k \in of(ay)}, 0)
    IN  [ay \in ayahs |->
            sorted_ms[SetMin({k \in of(ay) : quality_rank(sorted_ms[k].q) = top(ay)}, 0)]]

\* the surahs of a list in order of first appearance
RECURSIVE SurahsInOrder(_, _)
SurahsInOrder(ms, seen) ==
    IF ms = <<>> THEN <<>>
    ELSE IF Head(ms).sn \in seen THEN SurahsInOrder(Tail(ms), seen)
    ELSE <<Head(ms).sn>> \o SurahsInOrder(Tail(ms), seen \cup {Head(ms).sn})

\* the pace samples of _estimate_step_seconds, in ayah order
RECURSIVE StepDeltas(_, _, _)
StepDeltas(ayah_map, ayahs, prev) ==
    IF ayahs = {} THEN <<>>
    ELSE LET a == SetMin(ayahs, 0)
             rest == StepDeltas(ayah_map, ayahs \ {a}, a)
             time_gap == ayah_map[a].t - ayah_map[prev].t
         IN  IF prev = None \/ time_gap <= 0 THEN rest
             ELSE <<[num |-> time_gap, den |-> a - prev]>> \o rest

\* _estimate_step_seconds: the upper median of the per-ayah paces
estimate_step_seconds(ayah_map, default_step) ==
    With([deltas \in {SortedBy(StepDeltas(ayah_map, DOMAIN ayah_map, None), "fraction")} |->
    LET median == deltas[(Len(deltas) \div 2) + 1]
    IN  IF deltas = <<>> THEN default_step
        ELSE Max(4, Min(20, RoundDiv(median.num, median.den)))])

\* _fill_surah_coverage_markers for one missing ayah: [add, marker]
coverage_for_ayah(ayah_map, sn, ayah, ts, resets, enforce_weak_support) ==
    LET known == DOMAIN ayah_map
        left_anchors == {a \in known : a < ayah /\ is_anchor_quality(ayah_map[a].q)}
        right_anchors == {a \in known : a > ayah /\ is_anchor_quality(ayah_map[a].q)}
        has_left == left_anchors # {}
        has_right == right_anchors # {}
        left_ayah == SetMax(left_anchors, 0)
        right_ayah == SetMin(right_anchors, 0)
        left_marker == ayah_map[left_ayah]
        right_marker == ayah_map[right_ayah]
    IN
    With([step_seconds \in {estimate_step_seconds(ayah_map, 8)} |->
    LET span_ayahs == right_ayah - left_ayah
        span_secs == right_marker.t - left_marker.t
    IN
    With([bridged \in {/\ has_left /\ has_right
                       /\ span_ayahs > 0 /\ span_ayahs <= 60
                       /\ span_secs > 0 /\ span_secs <= 2400
                       /\ ~contains_fatiha_reset_between(resets, left_marker.t, right_marker.t)
                       /\ span_secs >= min_infer_step_seconds * span_ayahs
                       /\ span_secs <= max_infer_step_seconds * span_ayahs} |->
    With([bridge_time \in {IF has_left /\ has_right
                           THEN RoundDiv(left_marker.t * Max(1, span_ayahs)
                                             + span_secs * (ayah - left_ayah),
                                         Max(1, span_ayahs))
                           ELSE 0} |->
    LET left_time == left_marker.t + (ayah - left_ayah) * step_seconds
    IN
    With([left_ok \in {/\ has_left
                       /\ ayah - left_ayah <= 5
                       /\ ~contains_fatiha_reset_between(resets, left_marker.t, left_time)} |->
    LET right_time == Max(0, right_marker.t - (right_ayah - ayah) * step_seconds)
    IN
    With([right_ok \in {/\ has_right
                        /\ right_ayah - ayah <= 5
                        /\ ~contains_fatiha_reset_between(resets, right_time, right_marker.t)} |->
    LET usable == IF has_left /\ has_right THEN bridged
                  ELSE IF has_left THEN left_ok
                  ELSE IF has_right THEN right_ok
                  ELSE FALSE
    IN
    With([raw_time \in {IF has_left /\ has_right THEN bridge_time
                        ELSE IF has_left THEN left_time
                        ELSE IF has_right THEN right_time ELSE 0} |->
    LET deferred == defer_inferred_time_after_fatiha(raw_time, resets)
    IN
    With([after_left \in {IF has_left THEN Max(left_marker.t + 1, deferred) ELSE deferred} |->
    LET after_right == IF has_right THEN Min(right_marker.t - 1, after_left) ELSE after_left
        inferred_time == IF resets # <<>> THEN after_right ELSE raw_time
    IN
    With([supported \in {\/ ~enforce_weak_support
                         \/ has_weak_local_support(ts, IndexOf(sn, ayah),
                                Max(0, inferred_time - 16), inferred_time + 16,
                                Max(60, ambiguous_min_score - 8), Max(70, min_overlap - 50))} |->
    IF usable /\ supported
    THEN [add |-> TRUE,
          marker |-> Marker(Max(0, inferred_time), Max(0, inferred_time), sn, ayah,
                            "inferred", 560)]
    ELSE [add |-> FALSE, marker |-> NoMarker]])])])])])])])])

RECURSIVE coverage_for_surah(_, _, _, _, _, _, _)
coverage_for_surah(ayah_map, sn, ayah, max_ayah, ts, resets, enforce_weak_support) ==
    IF ayah > max_ayah THEN <<>>
    ELSE LET rest == coverage_for_surah(ayah_map, sn, ayah + 1, max_ayah, ts, resets,
                                        enforce_weak_support)
         IN  IF ayah \in DOMAIN ayah_map THEN rest
             ELSE
         With([r \in {coverage_for_ayah(ayah_map, sn, ayah, ts, resets, enforce_weak_support)} |->
         IF r.add THEN <<r.marker>> \o rest
         ELSE rest])

RECURSIVE coverage_for_surahs(_, _, _, _, _)
coverage_for_surahs(sorted_ms, surahs, ts, resets, enforce_weak_support) ==
    IF surahs = <<>> THEN <<>>
    ELSE With([ayah_map \in {AyahMap(sorted_ms, Head(surahs))} |->
         coverage_for_surah(ayah_map, Head(surahs), SetMin(DOMAIN ayah_map, 0),
                            SetMax(DOMAIN ayah_map, 0), ts, resets, enforce_weak_support)
         \o coverage_for_surahs(sorted_ms, Tail(surahs), ts, resets, enforce_weak_support)])

\* _fill_surah_coverage_markers
fill_surah_coverage_markers(existing_markers, ts, resets, enforce_weak_support) ==
    With([sorted_ms \in {SortedBy(existing_markers, "time")} |->
    coverage_for_surahs(sorted_ms, SurahsInOrder(sorted_ms, {}), ts, resets,
                        enforce_weak_support)])

\* _dedupe_by_local_time_window: the backward scan for one marker; 0 = none
RECURSIVE dedupe_scan(_, _, _, _)
dedupe_scan(deduped, marker, index, window_seconds) ==
    IF index < 1 THEN 0
    ELSE IF marker.t - deduped[index].t > window_seconds THEN 0
    ELSE IF marker.sn = deduped[index].sn /\ marker.ay = deduped[index].ay THEN index
    ELSE dedupe_scan(deduped, marker, index - 1, window_seconds)

RECURSIVE dedupe_loop(_, _, _, _)
dedupe_loop(sorted_ms, k, deduped, window_seconds) ==
    IF k > Len(sorted_ms) THEN deduped
    ELSE LET marker == sorted_ms[k]
             index == dedupe_scan(deduped, marker, Len(deduped), window_seconds)
         IN  IF index = 0
             THEN dedupe_loop(sorted_ms, k + 1, Append(deduped, marker), window_seconds)
             ELSE
         With([wins \in {\/ quality_rank(marker.q) > quality_rank(deduped[index].q)
                         \/ /\ quality_rank(marker.q) = quality_rank(deduped[index].q)
                            /\ marker.t < deduped[index].t} |->
         IF wins
         THEN dedupe_loop(sorted_ms, k + 1, [deduped EXCEPT ![index] = marker],
                          window_seconds)
         ELSE dedupe_loop(sorted_ms, k + 1, deduped, window_seconds)])

\* a dedupe that keeps the marker it saw first, whatever the qualities
dedupe_by_local_time_window_first_seen(ms, window_seconds) ==
    LET sorted_ms == SortedBy(ms, "time")
        kept == {k \in DOMAIN sorted_ms :
                    ~\E j \in 1 .. (k - 1) :
                        /\ sorted_ms[j].sn = sorted_ms[k].sn
                        /\ sorted_ms[j].ay = sorted_ms[k].ay
                        /\ sorted_ms[k].t - sorted_ms[j].t <= window_seconds}
    IN  [n \in 1 .. Cardinality(kept) |->
            sorted_ms[CHOOSE i \in kept : Cardinality({j \in kept : j <= i}) = n]]

dedupe_by_local_time_window(ms, window_seconds) ==
    dedupe_loop(SortedBy(ms, "time"), 1, <<>>, window_seconds)

\* marker.time / start_time / end_time set together
Retimed(m, st, en) == [m EXCEPT !.t = st, !.st = st, !.en = en]

\* _apply_overlap_conflict_resolution: the loop over the ordered markers
RECURSIVE overlap_loop(_, _, _)
overlap_loop(ordered, idx, resolved) ==
    IF idx > Len(ordered) THEN resolved
    ELSE IF resolved = <<>> THEN overlap_loop(ordered, idx + 1, <<ordered[idx]>>)
    ELSE LET marker == ordered[idx]
             previous == resolved[Len(resolved)]
             conflict == /\ previous.sn = marker.sn
                         /\ marker.ay = previous.ay + 1
                         /\ StartOf(marker) < EndOr(previous, previous.t)
             is_strong == marker.q \in {"high", "manual"} \/ marker.cf >= 720
             weak == ~is_strong /\ marker.cf <= previous.cf + 20
             delayed_start == EndOr(previous, previous.t) + 1
             has_next == /\ idx + 1 <= Len(ordered)
                         /\ ordered[idx + 1].sn = marker.sn
                         /\ ordered[idx + 1].ay >= marker.ay
             next_start == StartOf(ordered[idx + 1])
             room == ~has_next \/ delayed_start < next_start
         IN
         With([dropped \in {conflict /\ weak /\ ~room /\ marker.cf < 450 /\ marker.q = "inferred"} |->
         IF dropped THEN overlap_loop(ordered, idx + 1, resolved)
         ELSE
         With([moved \in {IF conflict /\ weak
                          THEN IF room
                               THEN Retimed(marker, delayed_start,
                                            Max(EndOr(marker, delayed_start), delayed_start))
                               ELSE Retimed(marker, Max(delayed_start, next_start),
                                            Max(delayed_start, next_start))
                          ELSE marker} |->
         LET trimmed == IF conflict /\ StartOf(moved) < EndOr(previous, previous.t)
                        THEN [previous EXCEPT !.en = Max(StartOf(previous), StartOf(moved) - 1)]
                        ELSE previous
         IN  overlap_loop(ordered, idx + 1,
                          Append([resolved EXCEPT ![Len(resolved)] = trimmed], moved))])])

apply_overlap_conflict_resolution(ms) ==
    IF Len(ms) < 2 THEN ms ELSE overlap_loop(SortByKey(ms), 1, <<>>)

\* _refine_weak_boundary_markers: the loop body for position idx
refine_weak_boundary_at(ordered, idx, ts, resets) ==
    LET marker == ordered[idx]
        previous == ordered[idx - 1]
        next_marker == ordered[idx + 1]
    IN
    With([index \in {IndexOf(marker.sn, marker.ay)} |->
    LET prev_end == EndOr(previous, previous.t)
        marker_start == StartOf(marker)
        window_start == Max(prev_end + 6, marker_start + 8)
        window_end == Min(next_marker.t - 6, marker_start + 220)
    IN
    With([best \in {find_best_ayah_timestamp(ts, index, window_start, window_end,
                        Max(window_start, marker_start + 20), min_score, min_overlap,
                        min_confidence, ambiguous_min_score, ambiguous_min_confidence)} |->
    LET bounded_time == Max(window_start, Min(window_end, best.st))
        bounded_end == Max(bounded_time, Min(window_end, best.en))
    IN
    With([deferred_time \in {Max(window_start,
                                 Min(window_end,
                                     defer_inferred_time_after_fatiha(bounded_time, resets)))} |->
    With([deferred_end \in {Max(deferred_time, Min(window_end, bounded_end))} |->
    With([eligible \in {/\ marker.sn = previous.sn /\ marker.sn = next_marker.sn
                        /\ marker.ay = previous.ay + 1
                        /\ next_marker.ay > marker.ay
                        /\ marker.q \in {"ambiguous", "inferred"}
                        /\ ~(marker.cf >= 660 /\ marker.q = "ambiguous")
                        /\ marker_start - prev_end <= 3
                        /\ next_marker.t - marker_start >= 25
                        /\ index # None
                        /\ window_end > window_start
                        /\ best.found
                        /\ best.st > marker_start + 5
                        /\ best.cf >= Max(marker.cf + 80, 600)} |->
    IF ~eligible THEN ordered
    ELSE IF resets # <<>>
    THEN [ordered EXCEPT ![idx] = [Retimed(marker, deferred_time, deferred_end)
                                      EXCEPT !.q = best.q, !.cf = best.cf]]
    ELSE [ordered EXCEPT ![idx] = [Retimed(marker, bounded_time, bounded_end)
                                      EXCEPT !.q = best.q, !.cf = best.cf]]])])])])])

RECURSIVE refine_weak_boundary_loop(_, _, _, _)
refine_weak_boundary_loop(ordered, idx, ts, resets) ==
    IF idx > Len(ordered) - 1 THEN ordered
    ELSE refine_weak_boundary_loop(refine_weak_boundary_at(ordered, idx, ts, resets),
                                   idx + 1, ts, resets)

refine_weak_boundary_markers(ms, ts, resets) ==
    IF Len(ms) < 3 THEN ms ELSE refine_weak_boundary_loop(SortByKey(ms), 2, ts, resets)

\* _refine_inferred_markers_with_local_search: the loop body for position idx
refine_inferred_at(ordered, idx, ts, resets) ==
    LET marker == ordered[idx]
    IN
    With([index \in {IndexOf(marker.sn, marker.ay)} |->
    LET lefts == {k \in 1 .. (idx - 1) : ordered[k].sn = marker.sn}
        rights == {k \in (idx + 1) .. Len(ordered) : ordered[k].sn = marker.sn}
        prev_marker == ordered[SetMax(lefts, 0)]
        next_marker == ordered[SetMin(rights, 0)]
        current_time == StartOf(marker)
        near_start == IF lefts # {} THEN EndOr(prev_marker, prev_marker.t) + 2
                      ELSE Max(0, current_time - 90)
        near_end == IF rights # {} THEN StartOf(next_marker) - 2 ELSE current_time + 90
    IN
    With([window_start \in {Max(near_start, Max(0, current_time - 120))} |->
    LET window_end == Min(near_end, current_time + 120)
    IN
    With([best \in {find_best_ayah_timestamp(ts, index, window_start, window_end, current_time,
                        Max(74, min_score - 6), Max(60, min_overlap - 80),
                        Max(560, min_confidence - 80), Max(66, ambiguous_min_score - 4),
                        Max(480, ambiguous_min_confidence - 40))} |->
    LET bounded_time == Max(window_start, Min(window_end, best.st))
    IN
    With([bounded_end \in {Max(bounded_time, Min(window_end, best.en))} |->
    With([deferred_time \in {Max(window_start,
                                 Min(window_end,
                                     defer_inferred_time_after_fatiha(bounded_time, resets)))} |->
    LET deferred_end == Max(deferred_time, Min(window_end, bounded_end))
        final_time == IF resets # <<>> THEN deferred_time ELSE bounded_time
        final_end == IF resets # <<>> THEN deferred_end ELSE bounded_end
    IN
    With([eligible \in {/\ marker.q = "inferred"
                        /\ index # None
                        /\ near_end > near_start
                        /\ window_end > window_start
                        /\ best.found
                        /\ best.cf >= 560} |->
    IF ~eligible THEN ordered
    ELSE IF Abs(final_time - current_time) < 2 /\ best.q = "ambiguous"
    THEN [ordered EXCEPT ![idx].cf = Max(ConfOr(marker, 560), best.cf)]
    ELSE [ordered EXCEPT ![idx] = [Retimed(marker, final_time,
                                           Max(final_end, EndOr(marker, final_end)))
                                      EXCEPT !.q = best.q, !.cf = best.cf]]])])])])])])

RECURSIVE refine_inferred_loop(_, _, _, _)
refine_inferred_loop(ordered, idx, ts, resets) ==
    IF idx > Len(ordered) THEN ordered
    ELSE refine_inferred_loop(refine_inferred_at(ordered, idx, ts, resets),
                              idx + 1, ts, resets)

refine_inferred_markers_with_local_search(ms, ts, resets) ==
    IF Len(ms) < 3 THEN ms ELSE refine_inferred_loop(SortByKey(ms), 1, ts, resets)

\* _redistribute_dense_weak_runs.is_weak
is_weak_for_redistribution(m) ==
    m.q = "inferred" \/ (m.q = "ambiguous" /\ m.cf <= 620)

\* the end of the run of tightly packed consecutive weak ayat starting at k
RECURSIVE weak_run_end(_, _)
weak_run_end(ordered, run_end) ==
    IF run_end + 1 <= Len(ordered)
       /\ ordered[run_end + 1].sn = ordered[run_end].sn
       /\ ordered[run_end + 1].ay = ordered[run_end].ay + 1
       /\ is_weak_for_redistribution(ordered[run_end + 1])
       /\ StartOf(ordered[run_end + 1]) - StartOf(ordered[run_end]) <= 25
    THEN weak_run_end(ordered, run_end + 1)
    ELSE run_end

\* the even spread of the run run_start .. run_end between its neighbours
spread_run(ordered, run_start, run_end, right) ==
    LET n == run_end - run_start + 1
        left == ordered[run_start - 1]
        left_bound == EndOr(left, left.t) + 1
        available == (StartOf(right) - 1) - left_bound
        target(offset) ==
            LET raw == RoundDiv(left_bound * (n + 1) + available * offset, n + 1)
            IN  IF raw <= left_bound THEN left_bound + offset ELSE raw
    IN  [k \in DOMAIN ordered |->
            IF k < run_start \/ k > run_end THEN ordered[k]
            ELSE With([moved \in {Retimed(ordered[k], target(k - run_start + 1),
                                          target(k - run_start + 1))} |->
                 IF moved.q = "inferred"
                 THEN [moved EXCEPT !.cf = Max(ConfOr(moved, 560), 580)]
                 ELSE moved])]

RECURSIVE redistribute_loop(_, _)
redistribute_loop(ordered, idx) ==
    IF idx >= Len(ordered) THEN ordered
    ELSE IF ~is_weak_for_redistribution(ordered[idx]) THEN redistribute_loop(ordered, idx + 1)
    ELSE LET run_end == weak_run_end(ordered, idx)
             n == run_end - idx + 1
             run_span == StartOf(ordered[run_end]) - StartOf(ordered[idx])
         IN
         With([rights \in {{k \in (run_end + 1) .. Len(ordered) :
                               /\ ordered[k].sn = ordered[idx].sn
                               /\ ordered[k].ay > ordered[run_end].ay}} |->
         LET right == ordered[SetMin(rights, 0)]
             left == ordered[idx - 1]
             available == (StartOf(right) - 1) - (EndOr(left, left.t) + 1)
         IN  IF n < 4 \/ run_span > Max(8, n) \/ rights = {} \/ available < n * 3
             THEN redistribute_loop(ordered, run_end + 1)
             ELSE redistribute_loop(spread_run(ordered, idx, run_end, right), run_end + 1)])

\* _redistribute_dense_weak_runs
redistribute_dense_weak_runs(ms) ==
    IF Len(ms) < 4 THEN ms ELSE redistribute_loop(SortByKey(ms), 2)

\* the first later marker of the same surah with a larger ayah; 0 = none
NextInSurah(ordered, from, sn, ayah) ==
    SetMin({k \in from .. Len(ordered) : ordered[k].sn = sn /\ ordered[k].ay > ayah}, 0)

\* _stabilize_weak_marker_durations.nearest_step_seconds as a fraction
nearest_step_seconds(ordered, index) ==
    LET center == ordered[index]
        lefts == {k \in 1 .. (index - 1) :
                     /\ ordered[k].sn = center.sn
                     /\ center.ay - ordered[k].ay > 0
                     /\ StartOf(center) - StartOf(ordered[k]) > 0}
        rights == {k \in (index + 1) .. Len(ordered) :
                      /\ ordered[k].sn = center.sn
                      /\ ordered[k].ay - center.ay > 0
                      /\ StartOf(ordered[k]) - StartOf(center) > 0}
        l == ordered[SetMax(lefts, 0)]
        r == ordered[SetMin(rights, 0)]
        lf == [num |-> StartOf(center) - StartOf(l), den |-> center.ay - l.ay]
        rf == [num |-> StartOf(r) - StartOf(center), den |-> r.ay - center.ay]
    IN  IF lefts = {} /\ rights = {} THEN [num |-> 14, den |-> 1]
        ELSE
    With([best \in {IF lefts # {} /\ rights # {}
                    THEN [num |-> lf.num * rf.den + rf.num * lf.den, den |-> 2 * lf.den * rf.den]
                    ELSE IF lefts # {} THEN lf ELSE rf} |->
    IF best.num < 6 * best.den THEN [num |-> 6, den |-> 1]
    ELSE IF best.num > 26 * best.den THEN [num |-> 26, den |-> 1]
    ELSE best])

\* _stabilize_weak_marker_durations: the loop body for position idx
stabilize_at(ordered, idx) ==
    LET marker == ordered[idx]
        start == StartOf(marker)
        nxt == NextInSurah(ordered, idx + 1, marker.sn, marker.ay)
        next_marker == ordered[nxt]
        next_start == StartOf(next_marker)
        available == next_start - start - 1
    IN  IF marker.q \notin {"inferred", "ambiguous"} \/ nxt = 0 THEN ordered
        ELSE
    IF available <= 0 THEN ordered
    ELSE
    With([step \in {nearest_step_seconds(ordered, idx)} |->
    LET ratio == IF marker.q = "inferred" THEN 78 ELSE 62
        rounded == RoundDiv(step.num * ratio, step.den * 100)
    IN
    With([desired \in {Min(Min(IF marker.q = "inferred" THEN Max(12, rounded)
                               ELSE Max(8, rounded), 40), available)} |->
    LET target_end == Min(Max(EndOr(marker, start), start + desired), next_start - 1)
    IN
    With([held \in {[ordered EXCEPT ![idx].en = Max(start, target_end)]} |->
    LET min_gap == IF marker.q = "inferred" THEN 14 ELSE 10
        beyond == NextInSurah(ordered, idx + 2, marker.sn, next_marker.ay)
    IN
    With([ceiling \in {IF beyond = 0 THEN next_start ELSE StartOf(ordered[beyond]) - 1} |->
    LET target_next_start == Min(ceiling, start + min_gap)
    IN  IF next_marker.q \in {"inferred", "ambiguous"}
           /\ next_start - start < min_gap
           /\ target_next_start > next_start
        THEN [held EXCEPT ![nxt] =
                 Retimed(next_marker, target_next_start,
                         Max(EndOr(next_marker, target_next_start), target_next_start))]
        ELSE held])])])])

RECURSIVE stabilize_loop(_, _)
stabilize_loop(ordered, idx) ==
    IF idx > Len(ordered) - 1 THEN ordered
    ELSE stabilize_loop(stabilize_at(ordered, idx), idx + 1)

stabilize_weak_marker_durations(ms) ==
    IF Len(ms) < 2 THEN ms ELSE stabilize_loop(SortByKey(ms), 1)

\* _extend_point_markers_to_next: the loop body for position idx
extend_point_at(ordered, idx, max_extension_seconds) ==
    LET marker == ordered[idx]
        start == StartOf(marker)
        end == EndOr(marker, marker.t)
        nxt == NextInSurah(ordered, idx + 1, marker.sn, marker.ay)
        next_start == StartOf(ordered[nxt])
        extension == Min(max_extension_seconds, Max(0, next_start - start - 1))
    IN  IF end > start \/ marker.q \notin {"inferred", "ambiguous"} \/ nxt = 0 THEN ordered
        ELSE IF next_start <= start \/ extension <= 0 THEN ordered
        ELSE [ordered EXCEPT ![idx].en = start + extension]

RECURSIVE extend_point_loop(_, _, _)
extend_point_loop(ordered, idx, max_extension_seconds) ==
    IF idx > Len(ordered) - 1 THEN ordered
    ELSE extend_point_loop(extend_point_at(ordered, idx, max_extension_seconds), idx + 1,
                           max_extension_seconds)

extend_point_markers_to_next(ms, max_extension_seconds) ==
    IF Len(ms) < 2 THEN ms ELSE extend_point_loop(SortByKey(ms), 1, max_extension_seconds)

\* _prune_unrealistic_progression: last_index maps a surah to its position in kept
RECURSIVE prune_loop(_, _, _, _)
prune_loop(ordered, k, kept, last_index) ==
    IF k > Len(ordered) THEN kept
    ELSE LET marker == ordered[k]
             known == marker.sn \in DOMAIN last_index
             previous == kept[last_index[marker.sn]]
             dt == StartOf(marker) - StartOf(previous)
             da == marker.ay - previous.ay
             allowed_jump == Max(3, (Max(0, dt) \div 3) + 2)
         IN  IF ~known
             THEN prune_loop(ordered, k + 1, Append(kept, marker),
                             [sn \in DOMAIN last_index \cup {marker.sn} |->
                                 IF sn = marker.sn THEN Len(kept) + 1 ELSE last_index[sn]])
             ELSE IF da <= 0 THEN prune_loop(ordered, k + 1, kept, last_index)
             ELSE IF dt <= 1 /\ da > 1
             THEN IF quality_rank(marker.q) > quality_rank(previous.q)
                  THEN prune_loop(ordered, k + 1,
                                  [kept EXCEPT ![last_index[marker.sn]] = marker], last_index)
                  ELSE prune_loop(ordered, k + 1, kept, last_index)
             ELSE IF da > allowed_jump /\ quality_rank(marker.q) < 4
             THEN prune_loop(ordered, k + 1, kept, last_index)
             ELSE prune_loop(ordered, k + 1, Append(kept, marker),
                             [last_index EXCEPT ![marker.sn] = Len(kept) + 1])

prune_unrealistic_progression(ms) ==
    IF Len(ms) < 3 THEN ms ELSE prune_loop(SortByKey(ms), 1, <<>>, <<>>)

\* a shift of the start that leaves end_time where it was
ShiftedTo_keeping_end(m, st) == Retimed(m, st, m.en)

\* a marker moved to a later start, keeping its end at or after the start
ShiftedTo(m, st) == Retimed(m, st, Max(st, EndOr(m, st)))

\* _enforce_surah_transition_order for the surah pair (number, number + 1)
transition_order_for(ordered, number) ==
    With([previous_total \in {SurahTotal(number, 0)} |->
    LET finals == {k \in DOMAIN ordered : ordered[k].sn = number
                                          /\ ordered[k].ay = previous_total}
        upcoming == {k \in DOMAIN ordered : ordered[k].sn = number + 1}
        previous_final == ordered[SetMin(finals, 0)]
        boundary_floor == StartOf(previous_final) + Max(1, min_gap_seconds)
        first_upcoming_time == SetMin({StartOf(ordered[k]) : k \in upcoming}, 0)
    IN  IF previous_total = 0 \/ finals = {} \/ upcoming = {} THEN ordered
        ELSE IF first_upcoming_time >= boundary_floor THEN ordered
        ELSE [k \in DOMAIN ordered |->
                 IF k \in upcoming /\ StartOf(ordered[k]) < boundary_floor
                    /\ ordered[k].ay <= 6
                 THEN ShiftedTo(ordered[k], boundary_floor + Max(0, ordered[k].ay - 1))
                 ELSE ordered[k]]])

RECURSIVE transition_order_loop(_, _)
transition_order_loop(ordered, numbers) ==
    IF numbers = {} THEN ordered
    ELSE LET number == SetMin(numbers, 0)
         IN  transition_order_loop(transition_order_for(ordered, number), numbers \ {number})

enforce_surah_transition_order(ms) ==
    IF Len(ms) < 3 THEN ms
    ELSE transition_order_loop(SortByKey(ms), {ms[k].sn : k \in DOMAIN ms})

\* the positions of one surah's markers, ordered by (ayah, time)
RECURSIVE PositionRecords(_, _, _)
PositionRecords(ordered, sn, k) ==
    IF k > Len(ordered) THEN <<>>
    ELSE IF ordered[k].sn = sn
    THEN <<[pos |-> k, ay |-> ordered[k].ay, t |-> ordered[k].t]>>
         \o PositionRecords(ordered, sn, k + 1)
    ELSE PositionRecords(ordered, sn, k + 1)

SurahPositions(ordered, sn) == SortedBy(PositionRecords(ordered, sn, 1), "ayah_time")

\* _enforce_long_ayah_inferred_floor: the pairs of one surah
RECURSIVE long_ayah_pairs(_, _, _)
long_ayah_pairs(ordered, positions, k) ==
    IF k >= Len(positions) THEN ordered
    ELSE LET prev == ordered[positions[k].pos]
             curr == ordered[positions[k + 1].pos]
         IN
         With([prev_index \in {IndexOf(prev.sn, prev.ay)} |->
         LET token_count == EntryAt(prev_index).tok
             min_hold == Max(18, Min(180, RoundDiv(token_count * 80, 100)))
         IN
         With([required_start \in {StartOf(prev) + min_hold} |->
         With([applies \in {/\ curr.ay = prev.ay + 1
                            /\ curr.q = "inferred"
                            /\ prev.q \in {"high", "ambiguous", "manual"}
                            /\ prev_index # None
                            /\ token_count >= 45
                            /\ StartOf(curr) < required_start} |->
         IF applies
         THEN long_ayah_pairs([ordered EXCEPT ![positions[k + 1].pos] =
                                  ShiftedTo(curr, required_start)], positions, k + 1)
         ELSE long_ayah_pairs(ordered, positions, k + 1)])])])

RECURSIVE long_ayah_surahs(_, _)
long_ayah_surahs(ordered, surahs) ==
    IF surahs = {} THEN ordered
    ELSE LET sn == SetMin(surahs, 0)
         IN  long_ayah_surahs(long_ayah_pairs(ordered, SurahPositions(ordered, sn), 1),
                              surahs \ {sn})

enforce_long_ayah_inferred_floor(ms) ==
    IF Len(ms) < 3 THEN ms
    ELSE SortByKey(long_ayah_surahs(SortByKey(ms), {ms[k].sn : k \in DOMAIN ms}))

\* _enforce_sequential_ayah_order: the markers of one surah in (ayah, time) order
RECURSIVE sequential_scan(_, _, _, _, _)
sequential_scan(ordered, positions, k, prev_time, prev_ayah) ==
    IF k > Len(positions) THEN ordered
    ELSE LET marker == ordered[positions[k].pos]
             current == StartOf(marker)
             required == prev_time + (IF marker.q \in {"high", "manual"} THEN 1 ELSE 2)
         IN  IF prev_time = None
             THEN sequential_scan(ordered, positions, k + 1, current, marker.ay)
             ELSE IF marker.ay <= prev_ayah
             THEN sequential_scan(ordered, positions, k + 1, prev_time, prev_ayah)
             ELSE IF current < required
             THEN sequential_scan([ordered EXCEPT ![positions[k].pos] =
                                      ShiftedTo(marker, required)],
                                  positions, k + 1, required, marker.ay)
             ELSE sequential_scan(ordered, positions, k + 1, current, marker.ay)

RECURSIVE sequential_surahs(_, _)
sequential_surahs(ordered, surahs) ==
    IF surahs = {} THEN ordered
    ELSE LET sn == SetMin(surahs, 0)
         IN  sequential_surahs(
                 sequential_scan(ordered, SurahPositions(ordered, sn), 1, None, None),
                 surahs \ {sn})

enforce_sequential_ayah_order(ms) ==
    IF Len(ms) < 3 THEN ms
    ELSE SortByKey(sequential_surahs(SortByKey(ms), {ms[k].sn : k \in DOMAIN ms}))

\* _quran_first_refine_weak_markers: the loop body for position idx
quran_first_refine_at(ordered, idx, ts) ==
    LET marker == ordered[idx]
    IN
    With([index \in {IndexOf(marker.sn, marker.ay)} |->
    LET lefts == {k \in 1 .. (idx - 1) : ordered[k].sn = marker.sn
                                         /\ ordered[k].ay < marker.ay}
        rights == {k \in (idx + 1) .. Len(ordered) : ordered[k].sn = marker.sn
                                                     /\ ordered[k].ay > marker.ay}
        left_anchors == {k \in lefts : ordered[k].q \in {"high", "manual"}}
        right_anchors == {k \in rights : ordered[k].q \in {"high", "manual"}}
        prev_any == IF left_anchors # {} THEN ordered[SetMax(left_anchors, 0)]
                    ELSE ordered[SetMin(lefts, 0)]
        next_any == ordered[SetMin(rights, 0)]
        prev_anchor == ordered[SetMax(left_anchors, 0)]
        next_anchor == ordered[SetMin(right_anchors, 0)]
    IN
    With([left_any_bound \in {IF lefts # {} THEN EndOr(prev_any, prev_any.t) + 1 ELSE 0} |->
    LET right_any_bound == IF rights # {} THEN StartOf(next_any) - 1
                           ELSE StartOf(marker) + 180
    IN
    With([left_bound \in {IF left_anchors # {}
                          THEN Max(left_any_bound, EndOr(prev_anchor, prev_anchor.t) + 1)
                          ELSE left_any_bound} |->
    With([right_bound \in {IF right_anchors # {}
                           THEN Min(right_any_bound, StartOf(next_anchor) - 1)
                           ELSE right_any_bound} |->
    LET expected == Max(left_bound, Min(right_bound, StartOf(marker)))
    IN
    With([best \in {find_best_ayah_timestamp(ts, index, left_bound, right_bound, expected,
                        Max(72, min_score - 8), Max(50, min_overlap - 100),
                        Max(540, min_confidence - 100), Max(64, ambiguous_min_score - 6),
                        Max(460, ambiguous_min_confidence - 60))} |->
    LET bounded_start == Max(left_bound, Min(right_bound, best.st))
        raw_end == Max(bounded_start, Min(right_bound, best.en))
    IN
    With([bounded_end \in {IF rights # {} /\ raw_end >= StartOf(next_any)
                           THEN Max(bounded_start, StartOf(next_any) - 1)
                           ELSE raw_end} |->
    With([eligible \in {/\ marker.q \in {"inferred", "ambiguous"}
                        /\ index # None
                        /\ right_bound > left_bound
                        /\ best.found
                        /\ ~(lefts # {} /\ bounded_start <= EndOr(prev_any, prev_any.t))} |->
    IF ~eligible THEN ordered
    ELSE [ordered EXCEPT ![idx] = [Retimed(marker, bounded_start, bounded_end)
                                      EXCEPT !.q = best.q,
                                             !.cf = Max(marker.cf, best.cf)]]])])])])])])])

RECURSIVE quran_first_refine_loop(_, _, _)
quran_first_refine_loop(ordered, idx, ts) ==
    IF idx > Len(ordered) THEN ordered
    ELSE quran_first_refine_loop(quran_first_refine_at(ordered, idx, ts), idx + 1, ts)

quran_first_refine_weak_markers(ms, ts) ==
    IF Len(ms) < 3 THEN ms ELSE quran_first_refine_loop(SortByKey(ms), 1, ts)

\* _delay_weak_markers_after_resets.has_local_speech
has_local_speech(ts, second, window) ==
    \E k \in DOMAIN ts :
        /\ ~(ts[k].e < Max(0, second - window) \/ ts[k].s > second + window)
        /\ NormalizedLen(ts[k]) >= 6

\* _delay_weak_markers_after_resets: the loop body for position idx
delay_after_reset_at(ordered, idx, resets, ts, hold_seconds) ==
    LET marker == ordered[idx]
        marker_start == StartOf(marker)
        reset_points == {resets[k] : k \in DOMAIN resets}
        earlier == {r \in reset_points : r <= marker_start}
        later == {r \in reset_points : r > marker_start}
        recent_reset == SetMax(earlier, None)
        next_reset == SetMin(later, None)
    IN  IF marker.q \notin {"inferred", "ambiguous"} THEN ordered
        ELSE
    With([before_next \in {/\ later # {}
                           /\ next_reset - marker_start <= 120
                           /\ ~has_local_speech(ts, marker_start, 18)} |->
    LET min_start == IF before_next THEN next_reset + hold_seconds
                     ELSE recent_reset + hold_seconds
        nxt == NextInSurah(ordered, idx + 1, marker.sn, marker.ay)
    IN  IF ~before_next /\ (earlier = {} \/ marker_start >= min_start) THEN ordered
        ELSE
    With([target \in {IF nxt = 0 THEN min_start ELSE Min(min_start, StartOf(ordered[nxt]) - 1)} |->
    IF target <= marker_start THEN ordered
    ELSE [ordered EXCEPT ![idx] = Retimed(marker, target, Max(EndOr(marker, target), target))]])])

RECURSIVE delay_after_reset_loop(_, _, _, _, _)
delay_after_reset_loop(ordered, idx, resets, ts, hold_seconds) ==
    IF idx > Len(ordered) THEN ordered
    ELSE delay_after_reset_loop(delay_after_reset_at(ordered, idx, resets, ts, hold_seconds),
                                idx + 1, resets, ts, hold_seconds)

delay_weak_markers_after_resets(ms, resets, ts, hold_seconds) ==
    IF Len(ms) < 2 \/ resets = <<>> THEN ms
    ELSE delay_after_reset_loop(SortByKey(ms), 1, resets, ts, hold_seconds)

\* ------------------------------------------------------------------------
\* The day's override layer (pipeline.py).  A day configuration is
\* [final_surah, final_ayah, start_time, final_time, marker_overrides];
\* None stands for an absent key, and a surah's name for its number.
\* ------------------------------------------------------------------------
\* _apply_day_final_ayah_override.keep
keep(marker, cfg, final_surah_number) ==
    IF cfg.start_time # None /\ marker.t < cfg.start_time THEN FALSE
    ELSE IF cfg.final_time # None /\ marker.t > cfg.final_time THEN FALSE
    ELSE IF cfg.final_ayah = None THEN TRUE
    ELSE IF cfg.final_surah # None /\ final_surah_number # None
            /\ marker.sn > final_surah_number THEN FALSE
    ELSE IF cfg.final_surah # None /\ final_surah_number # None
            /\ marker.sn < final_surah_number THEN TRUE
    ELSE IF cfg.final_surah # None /\ marker.sn # cfg.final_surah THEN TRUE
    ELSE marker.ay <= cfg.final_ayah

\* time_gap / ayah_gap of the consecutive pairs of same_surah
RECURSIVE step_candidates(_, _)
step_candidates(same_surah, k) ==
    IF k >= Len(same_surah) THEN <<>>
    ELSE LET ayah_gap == same_surah[k + 1].ay - same_surah[k].ay
             time_gap == same_surah[k + 1].t - same_surah[k].t
         IN  IF ayah_gap <= 0 \/ time_gap <= 0 THEN step_candidates(same_surah, k + 1)
             ELSE <<[num |-> time_gap, den |-> ayah_gap]>>
                  \o step_candidates(same_surah, k + 1)

\* _apply_day_final_ayah_override
apply_day_final_ayah_override(ms, cfg) ==
    LET named == {k \in DOMAIN ms : ms[k].sn = cfg.final_surah}
        final_surah_number == IF cfg.final_surah # None /\ named # {}
                              THEN cfg.final_surah ELSE None
        filtered == SelectSeq(ms, LAMBDA m : keep(m, cfg, final_surah_number))
    IN  IF ms = <<>> THEN ms
        ELSE
    IF cfg.final_ayah = None /\ cfg.final_time = None /\ cfg.start_time = None THEN ms
    ELSE
    IF filtered = <<>> THEN ms
    ELSE
    With([has_terminal \in {\E k \in DOMAIN filtered :
                                filtered[k].sn = cfg.final_surah /\ filtered[k].ay = cfg.final_ayah} |->
    With([same_surah \in {SortedBy(SelectSeq(filtered, LAMBDA m : m.sn = cfg.final_surah),
                                   "ayah_time")} |->
    LET below == {k \in DOMAIN same_surah :
                     \A j \in 1 .. k : same_surah[j].ay <= cfg.final_ayah}
        anchor == same_surah[SetMax(below, 0)]
    IN
    With([sorted_steps \in {SortedBy(step_candidates(same_surah, 1), "fraction")} |->
    LET step_seconds == IF sorted_steps = <<>> THEN [num |-> 18, den |-> 1]
                        ELSE sorted_steps[(Len(sorted_steps) \div 2) + 1]
    IN
    With([projected \in {IF cfg.final_time # None THEN cfg.final_time
                         ELSE IF below # {}
                         THEN RoundDiv(anchor.t * step_seconds.den
                                       + Max(0, cfg.final_ayah - anchor.ay) * step_seconds.num,
                                       step_seconds.den)
                         ELSE filtered[Len(filtered)].t} |->
    With([terminal_time \in {Max(projected, filtered[Len(filtered)].t)} |->
    With([surah_number \in {IF InCorpus(cfg.final_surah, cfg.final_ayah) THEN cfg.final_surah
                            ELSE final_surah_number} |->
    LET terminal == Marker(terminal_time, terminal_time, surah_number, cfg.final_ayah,
                           "manual", 1000)
    IN  IF cfg.final_ayah # None /\ cfg.final_surah # None /\ ~has_terminal
        THEN SortByKey(Append(filtered, terminal))
        ELSE filtered])])])])])])

\* _apply_marker_time_overrides: one item of marker_overrides
apply_marker_override(ms, item) ==
    LET matches == {k \in DOMAIN ms : ms[k].sn = item.surah_number /\ ms[k].ay = item.ayah}
        target_end_time == IF item.end_time # None THEN item.end_time ELSE item.start_time
        end_time == Max(item.start_time, target_end_time)
        first == SetMin(matches, 0)
    IN  IF matches # {}
        THEN [ms EXCEPT ![first] = [Retimed(ms[first], item.start_time, end_time)
                                       EXCEPT !.q = "manual", !.cf = 1000]]
        ELSE Append(ms, Marker(item.start_time, end_time, item.surah_number, item.ayah,
                               "manual", 1000))

RECURSIVE marker_override_loop(_, _)
marker_override_loop(ms, items) ==
    IF items = <<>> THEN ms
    ELSE marker_override_loop(apply_marker_override(ms, Head(items)), Tail(items))

\* the overrides applied without the closing sort
apply_marker_time_overrides_unsorted(ms, cfg) ==
    IF ms = <<>> \/ cfg.marker_overrides = <<>> THEN ms
    ELSE marker_override_loop(ms, cfg.marker_overrides)

\* _apply_marker_time_overrides
apply_marker_time_overrides(ms, cfg) ==
    IF ms = <<>> \/ cfg.marker_overrides = <<>> THEN ms
    ELSE SortByKey(marker_override_loop(ms, cfg.marker_overrides))

\* _fill_override_surah_range: best_by_ayah over the relevant markers
RECURSIVE best_by_ayah_loop(_, _, _)
best_by_ayah_loop(relevant, k, best) ==
    IF k > Len(relevant) THEN best
    ELSE LET marker == relevant[k]
             existing == best[marker.ay]
             marker_rank == quality_rank(marker.q)
             existing_rank == quality_rank(existing.q)
         IN  IF marker.ay \notin DOMAIN best
             THEN best_by_ayah_loop(relevant, k + 1,
                      [a \in DOMAIN best \cup {marker.ay} |->
                          IF a = marker.ay THEN marker ELSE best[a]])
             ELSE
         With([wins \in {\/ marker_rank > existing_rank
                         \/ marker_rank = existing_rank /\ marker.cf > existing.cf
                         \/ /\ marker_rank = existing_rank
                            /\ marker.cf = existing.cf
                            /\ marker.t < existing.t} |->
         IF wins
         THEN best_by_ayah_loop(relevant, k + 1, [best EXCEPT ![marker.ay] = marker])
         ELSE best_by_ayah_loop(relevant, k + 1, best)])

\* the gaps between best markers of consecutive ayat, in ayah order
RECURSIVE adjacent_steps(_, _)
adjacent_steps(best, ayahs) ==
    IF ayahs = {} THEN <<>>
    ELSE LET left_ayah == SetMin(ayahs, 0)
             rest == adjacent_steps(best, ayahs \ {left_ayah})
             gap == best[left_ayah + 1].t - best[left_ayah].t
         IN  IF (left_ayah + 1) \in DOMAIN best /\ 0 < gap /\ gap < 240
             THEN <<[num |-> gap, den |-> 1]>> \o rest
             ELSE rest

\* the loop "for ayah in range(1, final_ayah + 1)": [best, additions]
RECURSIVE override_fill_loop(_, _, _, _, _, _)
override_fill_loop(ayah, cfg, target_surah_number, fallback_step, best, additions) ==
    IF ayah > cfg.final_ayah THEN additions
    ELSE IF ayah \in DOMAIN best
    THEN override_fill_loop(ayah + 1, cfg, target_surah_number, fallback_step, best, additions)
    ELSE LET lower == {a \in DOMAIN best : 1 <= a /\ a < ayah}
             upper == {a \in DOMAIN best : ayah < a /\ a <= cfg.final_ayah}
             prev_marker == best[SetMax(lower, 0)]
             next_marker == best[SetMin(upper, 0)]
             span == Max(1, next_marker.ay - prev_marker.ay)
             between == RoundDiv(prev_marker.t * span
                                 + (next_marker.t - prev_marker.t) * (ayah - prev_marker.ay),
                                 span)
         IN  IF lower = {} /\ upper = {}
             THEN override_fill_loop(ayah + 1, cfg, target_surah_number, fallback_step,
                                     best, additions)
             ELSE
         With([inferred_time \in {IF lower # {} /\ upper # {} /\ next_marker.ay > prev_marker.ay
                                     /\ next_marker.t > prev_marker.t
                                  THEN Min(Max(between, prev_marker.t + 1), next_marker.t - 1)
                                  ELSE IF lower # {}
                                  THEN prev_marker.t + (ayah - prev_marker.ay) * fallback_step
                                  ELSE Max(0, next_marker.t - (next_marker.ay - ayah) * fallback_step)} |->
         LET bounded_time == IF cfg.final_time # None THEN Min(inferred_time, cfg.final_time)
                             ELSE inferred_time
             marker == Marker(bounded_time, bounded_time, target_surah_number, ayah,
                              "inferred", 560)
         IN  override_fill_loop(ayah + 1, cfg, target_surah_number, fallback_step,
                 [a \in DOMAIN best \cup {ayah} |-> IF a = ayah THEN marker ELSE best[a]],
                 Append(additions, marker))])

\* _fill_override_surah_range
fill_override_surah_range(ms, cfg) ==
    IF ms = <<>> \/ cfg.final_surah = None \/ cfg.final_ayah = None THEN ms
    ELSE
    With([in_corpus \in {\E i \in CorpusIdx : EntryAt(i).sn = cfg.final_surah} |->
    LET target_surah_number == cfg.final_surah
        relevant == SelectSeq(ms, LAMBDA m : m.sn = target_surah_number
                                             /\ m.ay <= cfg.final_ayah)
    IN  IF cfg.final_ayah <= 0 \/ ~in_corpus \/ relevant = <<>> THEN ms
        ELSE
    With([best \in {best_by_ayah_loop(relevant, 1, <<>>)} |->
    With([steps \in {SortedBy(adjacent_steps(best, DOMAIN best), "fraction")} |->
    LET fallback_step == IF steps = <<>> THEN 20
                         ELSE Max(6, steps[(Len(steps) \div 2) + 1].num)
    IN
    With([additions \in {override_fill_loop(1, cfg, target_surah_number, fallback_step,
                                            best, <<>>)} |->
    IF additions = <<>> THEN ms
    ELSE SortByKey(ms \o additions)])])])])

\* ------------------------------------------------------------------------
\* State
\* ------------------------------------------------------------------------
VARIABLES
    pc,                              \* the stage of the day's run
    transcript,                      \* transcript_segments seen so far
    forced_start_index,
    reanchor_cursor,
    markers,
    marker_positions,                \* CorpusIdx -> position in markers, 0 = absent
    last_matched_index,
    last_marker_time,
    stale_segments,
    precomputed_reset_times,
    fatiha_reset_times,
    awaiting_reacquire,
    pause_reacquire_until,
    previous_segment_end,
    reacquire_lock_ayahs_remaining,
    FATIHA_HINTS_NORM,               \* module-level memo of the normalised hints
    NON_RECITATION_HINTS_NORM,
    last,                            \* what the latest loop iteration saw and did
    matched_markers,                 \* the list match_quran_markers returned
    day_config                       \* the day's entry of the overrides file

loop_vars == <<transcript, forced_start_index, reanchor_cursor, marker_positions,
               last_matched_index, last_marker_time, stale_segments,
               precomputed_reset_times, fatiha_reset_times, awaiting_reacquire,
               pause_reacquire_until, previous_segment_end,
               reacquire_lock_ayahs_remaining, FATIHA_HINTS_NORM,
               NON_RECITATION_HINTS_NORM, last>>

vars == <<pc, markers, loop_vars, matched_markers, day_config>>

\* the matcher's local state, and the module-level memos it reads, as one
\* record
MatcherState ==
    [transcript |-> transcript, forced_start_index |-> forced_start_index,
     markers |-> markers, marker_positions |-> marker_positions,
     last_matched_index |-> last_matched_index, last_marker_time |-> last_marker_time,
     stale_segments |-> stale_segments, fatiha_reset_times |-> fatiha_reset_times,
     awaiting_reacquire |-> awaiting_reacquire,
     pause_reacquire_until |-> pause_reacquire_until,
     previous_segment_end |-> previous_segment_end,
     reacquire_lock_ayahs_remaining |-> reacquire_lock_ayahs_remaining,
     FATIHA_HINTS_NORM |-> FATIHA_HINTS_NORM,
     NON_RECITATION_HINTS_NORM |-> NON_RECITATION_HINTS_NORM,
     repeated |-> FALSE, emitted |-> None, outcome |-> "none"]

\* ------------------------------------------------------------------------
\* Inputs: the transcripts, schedules and day configurations of the runs
\* ------------------------------------------------------------------------
Ev1(i, lv) == [NoEvidence EXCEPT ![i] = lv]

Ev2(i, lv, j, lw) == [NoEvidence EXCEPT ![i] = lv, ![j] = lw]

\* segment templates: gap after the previous segment, duration, kind, the
\* evidence relative to the pointer (rel = offset of the recited entry), and
\* ra = the corpus index of a re-anchor point that fires at this segment
Template(gap, dur, k, rel, lv, rel2, lv2, ra) ==
    [gap |-> gap, dur |-> dur, k |-> k, rel |-> rel, lv |-> lv,
     rel2 |-> rel2, lv2 |-> lv2, ra |-> ra]

\* the segments of the day runs
SegmentMenu ==
    { Template(4, 6, "text", 1, "high", 0, "none", None),
      Template(4, 6, "text", 1, "amb", 0, "none", None),
      Template(4, 6, "text", 2, "high", 0, "none", None),
      Template(4, 6, "text", 0, "rep", 0, "none", None),
      Template(4, 6, "fatiha", 0, "none", 0, "none", None),
      Template(4, 6, "text", 1, "high", 0, "none", 0),
      Template(4, 6, "text", 0, "rep", 1, "high", None) }

\* the segments of the matcher-only runs
WideMenu ==
    SegmentMenu \cup
    { Template(4, 6, "text", 1, "weak", 0, "none", None),
      Template(20, 6, "text", 3, "high", 0, "none", None),
      Template(20, 6, "text", 1, "high", 0, "none", None),
      Template(200, 6, "text", 1, "high", 0, "none", None),
      Template(20, 6, "text", 0, "rep", 0, "none", None),
      Template(4, 6, "nonrec", 0, "none", 0, "none", None),
      Template(4, 6, "short", 0, "none", 0, "none", None),
      Template(4, 6, "text", 1, "high", 0, "none", 1),
      Template(4, 6, "text", 1, "high", 0, "none", 4),
      Template(4, 6, "text", 1, "exact", 0, "none", None) }

\* the segment a template denotes after the previous segment, for a pointer
SegmentOf(tpl, pointer, prev_end) ==
    LET s == (IF prev_end = None THEN 0 ELSE prev_end) + tpl.gap
        i == pointer + tpl.rel
        j == pointer + tpl.rel2
    IN
    With([ev \in {IF tpl.k # "text" \/ i \notin CorpusIdx THEN NoEvidence
                  ELSE IF tpl.lv2 = "none" \/ j \notin CorpusIdx THEN Ev1(i, tpl.lv)
                  ELSE Ev2(i, tpl.lv, j, tpl.lv2)} |->
    [s |-> s, e |-> s + tpl.dur, k |-> tpl.k, ev |-> ev]])

ForcedStarts == {None}

DayConfig(final_surah, final_ayah, final_time, marker_overrides) ==
    [final_surah |-> final_surah, final_ayah |-> final_ayah, start_time |-> None,
     final_time |-> final_time, marker_overrides |-> marker_overrides]

MarkerOverride(surah_number, ayah, start_time, end_time) ==
    [surah_number |-> surah_number, ayah |-> ayah, start_time |-> start_time,
     end_time |-> end_time]

\* no overrides file, or no entry for the day
NoDayConfig == DayConfig(None, None, None, <<>>)

DayConfigs ==
    { NoDayConfig,
      DayConfig(2, 3, 40, <<>>),
      [DayConfig(2, 2, 25, <<>>) EXCEPT !.start_time = 15],
      DayConfig(2, 9, None, <<>>),
      DayConfig(None, None, None, <<MarkerOverride(2, 2, 500, None)>>),
      DayConfig(None, None, None, <<MarkerOverride(3, 1, 2, 9)>>),
      DayConfig(None, None, None, <<MarkerOverride(2, 9, 40, None)>>) }

\* the segments of a transcript handed to match_quran_markers as it is,
\* without process_day's cleaning: non-recitation phrases, segments under 14
\* normalised characters and segments of weak evidence are among them, and a
\* segment may follow the one before it closely, after the hold, or a minute
\* later
EngineMenu ==
    SegmentMenu \cup
    { Template(4, 6, "nonrec", 0, "none", 0, "none", None),
      Template(4, 6, "short", 0, "none", 0, "none", None),
      Template(4, 6, "text", 1, "weak", 0, "none", None),
      Template(20, 6, "text", 1, "high", 0, "none", None),
      Template(60, 6, "text", 2, "high", 0, "none", None) }

\* the segments of the runs in which the reciter goes back: the next ayah,
\* the ayah at the pointer again, and the ayah before it again, soon or late
MaxRepeatSegments == 4

RepeatMenu ==
    { Template(4, 6, "text", 1, "high", 0, "none", None),
      Template(4, 6, "text", 0, "rep", 0, "none", None),
      Template(4, 6, "text", -1, "rep", 0, "none", None),
      Template(4, 6, "text", -1, "exact", 0, "none", None),
      Template(20, 6, "text", -1, "rep", 0, "none", None),
      Template(4, 6, "text", 2, "high", 0, "none", None) }

\* the marker lists handed to a post-processor pass on its own: the marker at
\* position k starts at 10 k seconds and lasts 5, for any ayah of surah 2
\* and any of three qualities
MaxInputMarkers == 3

InputMarker(k, ay, q) ==
    Marker(10 * k, 10 * k + 5, 2, ay, q,
           IF q = "manual" THEN 1000 ELSE IF q = "high" THEN 823 ELSE 560)

InputLists ==
    {[k \in 1 .. MaxInputMarkers |-> InputMarker(k, f[k].ay, f[k].q)] :
        f \in [1 .. MaxInputMarkers -> [ay : 1 .. 3, q : {"manual", "high", "inferred"}]]}

\* the stages of the chain a pass starts from
ChainStages ==
    {"merged", "covered", "deduped", "resolved", "boundary_refined", "inferred_refined",
     "delayed", "quran_refined", "redistributed", "stabilized", "extended", "pruned",
     "transitioned", "floored", "post_covered", "post_deduped", "post_resolved",
     "post_pruned", "post_filled", "post_floored", "sequenced"}

\* ------------------------------------------------------------------------
\* Initial state: match_quran_markers lines 2643-2676
\* ------------------------------------------------------------------------
InitRun ==
    /\ pc = "loop"
    /\ transcript = <<>>
    /\ forced_start_index \in ForcedStarts
    /\ reanchor_cursor = 0
    /\ markers = <<>>
    /\ marker_positions = [i \in CorpusIdx |-> 0]
    /\ last_matched_index = IF forced_start_index # None /\ forced_start_index < NCorpus
                            THEN forced_start_index - 1 ELSE -1
    /\ last_marker_time = -1
    /\ stale_segments = 0
    /\ precomputed_reset_times = <<>>
    /\ fatiha_reset_times = <<>>
    /\ awaiting_reacquire = FALSE
    /\ pause_reacquire_until = None
    /\ previous_segment_end = None
    /\ reacquire_lock_ayahs_remaining = 0
    /\ last = [outcome |-> "none"]
    /\ matched_markers = <<>>
    /\ day_config = NoDayConfig

\* the first invocation of a process: the memos are as the module defines
\* them (quran.py lines 69-70)
Init ==
    /\ FATIHA_HINTS_NORM = <<>>
    /\ NON_RECITATION_HINTS_NORM = <<>>
    /\ InitRun

\* an invocation in a process that has run the engine before: each memo is
\* empty or holds the list an earlier call assigned to it
InitInProcess ==
    /\ FATIHA_HINTS_NORM \in {<<>>, normalize_hints(FATIHA_HINTS)}
    /\ NON_RECITATION_HINTS_NORM \in {<<>>, normalize_hints(NON_RECITATION_HINTS)}
    /\ InitRun

\* a post-processor pass called on a list of its own, with no transcript
InitChain ==
    /\ FATIHA_HINTS_NORM = <<>>
    /\ NON_RECITATION_HINTS_NORM = <<>>
    /\ pc \in ChainStages
    /\ markers \in InputLists
    /\ transcript = <<>>
    /\ forced_start_index = None
    /\ reanchor_cursor = 0
    /\ marker_positions = [i \in CorpusIdx |-> 0]
    /\ last_matched_index = -1
    /\ last_marker_time = -1
    /\ stale_segments = 0
    /\ precomputed_reset_times = <<>>
    /\ fatiha_reset_times = <<>>
    /\ awaiting_reacquire = FALSE
    /\ pause_reacquire_until = None
    /\ previous_segment_end = None
    /\ reacquire_lock_ayahs_remaining = 0
    /\ last = [outcome |-> "none"]
    /\ matched_markers = <<>>
    /\ day_config = NoDayConfig

\* ------------------------------------------------------------------------
\* Actions
\* ------------------------------------------------------------------------
\* one iteration of "for segment_index, segment in enumerate(transcript_segments)"
\* on a segment of the menu
MatchUpTo(menu, limit) ==
    /\ pc = "loop"
    /\ Len(transcript) + Len(precomputed_reset_times) < limit
    /\ \E tpl \in menu :
       \E pointer \in {IF tpl.ra = None THEN last_matched_index ELSE tpl.ra - 1} :
       \E seg \in {SegmentOf(tpl, pointer, previous_segment_end)} :
       \E P \in {loop_prelude(seg, MatcherState, tpl.ra)} :
       \E R \in {loop_body(seg, MatcherState, tpl.ra)} :
         /\ transcript' = R.transcript
         /\ markers' = R.markers
         /\ marker_positions' = R.marker_positions
         /\ last_matched_index' = R.last_matched_index
         /\ last_marker_time' = R.last_marker_time
         /\ stale_segments' = R.stale_segments
         /\ fatiha_reset_times' = R.fatiha_reset_times
         /\ awaiting_reacquire' = R.awaiting_reacquire
         /\ pause_reacquire_until' = R.pause_reacquire_until
         /\ previous_segment_end' = R.previous_segment_end
         /\ reacquire_lock_ayahs_remaining' = R.reacquire_lock_ayahs_remaining
         /\ FATIHA_HINTS_NORM' = R.FATIHA_HINTS_NORM
         /\ NON_RECITATION_HINTS_NORM' = R.NON_RECITATION_HINTS_NORM
         /\ reanchor_cursor' = IF tpl.ra = None THEN reanchor_cursor
                               ELSE reanchor_cursor + 1
         /\ last' = [outcome |-> R.outcome, reanchored |-> tpl.ra # None, ra |-> tpl.ra,
                     before |-> MatcherState, pointer |-> P.last_matched_index,
                     awaiting |-> P.awaiting_reacquire, segment |-> seg,
                     repeated |-> R.repeated, emitted |-> R.emitted]
    /\ UNCHANGED <<pc, forced_start_index, precomputed_reset_times, matched_markers,
                   day_config>>

MatchWith(menu) == MatchUpTo(menu, MaxSegments)

MatchSegment == MatchWith(SegmentMenu)

\* a Fatiha opening the day's transcript holds: detect_fatiha_starts records
\* its start as a precomputed reset and clean_transcript_for_matching drops it
\* at its _is_fatiha_like_segment test
DetectFatihaStart ==
    /\ pc = "loop"
    /\ Len(transcript) + Len(precomputed_reset_times) < MaxSegments
    /\ LET at == (IF previous_segment_end = None THEN 0 ELSE previous_segment_end) + 2
           appended == SubSeq(fatiha_reset_times, Len(precomputed_reset_times) + 1,
                              Len(fatiha_reset_times))
       IN  /\ \A k \in DOMAIN precomputed_reset_times : precomputed_reset_times[k] # at
           /\ precomputed_reset_times' = Append(precomputed_reset_times, at)
           /\ fatiha_reset_times' = Append(precomputed_reset_times, at) \o appended
    /\ FATIHA_HINTS_NORM' = is_fatiha_like_segment([k |-> "fatiha"], FATIHA_HINTS_NORM).memo
    /\ UNCHANGED <<pc, markers, transcript, forced_start_index, reanchor_cursor,
                   marker_positions, last_matched_index, last_marker_time, stale_segments,
                   awaiting_reacquire, pause_reacquire_until, previous_segment_end,
                   reacquire_lock_ayahs_remaining, NON_RECITATION_HINTS_NORM, last,
                   matched_markers, day_config>>

\* one pass of the chain: from stage "from" to stage "to"
Pass(from, to, result) ==
    /\ pc = from
    /\ pc' = to
    /\ markers' = result
    /\ UNCHANGED <<loop_vars, matched_markers, day_config>>

\* "if not transcript_segments or not corpus_entries: return []" (line 2633)
ReturnEmpty ==
    /\ pc = "loop"
    /\ transcript = <<>>
    /\ pc' = "returned"
    /\ markers' = <<>>
    /\ matched_markers' = <<>>
    /\ UNCHANGED <<loop_vars, day_config>>

\* the end of the loop, then gap fill and leading backfill (lines 3173-3707)
InferGaps ==
    /\ transcript # <<>>
    /\ Pass("loop", "merged", merged_after_gap_fill(markers, transcript, fatiha_reset_times))

\* lines 3708-3719
CoverageFill ==
    Pass("merged", "covered",
         markers \o fill_surah_coverage_markers(markers, transcript, fatiha_reset_times,
                                                require_weak_support_for_inferred))

\* lines 3720 and 3781
Dedupe ==
    \E stage \in {<<"covered", "deduped">>, <<"post_covered", "post_deduped">>} :
        Pass(stage[1], stage[2], dedupe_by_local_time_window(markers, 90))

\* lines 3721 and 3782
ResolveOverlaps ==
    \E stage \in {<<"deduped", "resolved">>, <<"post_deduped", "post_resolved">>} :
        Pass(stage[1], stage[2], apply_overlap_conflict_resolution(markers))

\* lines 3722-3732
RefineWeakBoundaries ==
    Pass("resolved", "boundary_refined",
         refine_weak_boundary_markers(markers, transcript, fatiha_reset_times))

\* lines 3733-3743
RefineInferred ==
    Pass("boundary_refined", "inferred_refined",
         refine_inferred_markers_with_local_search(markers, transcript, fatiha_reset_times))

\* lines 3744-3749
DelayAfterResets ==
    Pass("inferred_refined", "delayed",
         delay_weak_markers_after_resets(markers, fatiha_reset_times, transcript, 34))

\* lines 3750-3759
QuranFirstRefine ==
    Pass("delayed", "quran_refined", quran_first_refine_weak_markers(markers, transcript))

\* line 3760
Redistribute ==
    Pass("quran_refined", "redistributed", redistribute_dense_weak_runs(markers))

\* line 3761
Stabilize ==
    Pass("redistributed", "stabilized", stabilize_weak_marker_durations(markers))

\* line 3762
ExtendPoints ==
    Pass("stabilized", "extended", extend_point_markers_to_next(markers, 90))

\* lines 3763 and 3783
Prune ==
    \E stage \in {<<"extended", "pruned">>, <<"post_resolved", "post_pruned">>} :
        Pass(stage[1], stage[2], prune_unrealistic_progression(markers))

\* lines 3764 and 3784
TransitionOrder ==
    \E stage \in {<<"pruned", "transitioned">>, <<"post_pruned", "post_filled">>} :
        Pass(stage[1], stage[2], enforce_surah_transition_order(markers))

\* lines 3765 and 3785
LongAyahFloor ==
    \E stage \in {<<"transitioned", "floored">>, <<"post_filled", "post_floored">>} :
        Pass(stage[1], stage[2], enforce_long_ayah_inferred_floor(markers))

\* lines 3768-3780: the second coverage fill, skipping to line 3785 when it
\* adds nothing
PostFill ==
    \E post_fill \in {fill_surah_coverage_markers(markers, transcript, fatiha_reset_times,
                                                  FALSE)} :
        Pass("floored", IF post_fill = <<>> THEN "post_filled" ELSE "post_covered",
             markers \o post_fill)

\* line 3786
SequentialOrder ==
    Pass("post_floored", "sequenced", enforce_sequential_ayah_order(markers))

\* lines 3787-3788
FinalSort ==
    /\ pc = "sequenced"
    /\ pc' = "returned"
    /\ markers' = SortByKey(markers)
    /\ matched_markers' = SortByKey(markers)
    /\ UNCHANGED <<loop_vars, day_config>>

\* process_day lines 839-844, reading the day's configuration
ApplyDayFinalAyahOverride ==
    /\ pc = "returned"
    /\ \E cfg \in DayConfigs :
         /\ day_config' = cfg
         /\ markers' = apply_day_final_ayah_override(markers, cfg)
    /\ pc' = "final_ayah_applied"
    /\ UNCHANGED <<loop_vars, matched_markers>>

\* process_day lines 845-851
ApplyMarkerTimeOverrides ==
    /\ pc = "final_ayah_applied"
    /\ markers' = apply_marker_time_overrides(markers, day_config)
    /\ pc' = "time_overrides_applied"
    /\ UNCHANGED <<loop_vars, matched_markers, day_config>>

\* process_day lines 852-857; the list is then written out
FillOverrideSurahRange ==
    /\ pc = "time_overrides_applied"
    /\ markers' = fill_override_surah_range(markers, day_config)
    /\ pc' = "emitted"
    /\ UNCHANGED <<loop_vars, matched_markers, day_config>>

Next ==
    \/ MatchSegment
    \/ DetectFatihaStart
    \/ ReturnEmpty
    \/ InferGaps
    \/ CoverageFill
    \/ Dedupe
    \/ ResolveOverlaps
    \/ RefineWeakBoundaries
    \/ RefineInferred
    \/ DelayAfterResets
    \/ QuranFirstRefine
    \/ Redistribute
    \/ Stabilize
    \/ ExtendPoints
    \/ Prune
    \/ TransitionOrder
    \/ LongAyahFloor
    \/ PostFill
    \/ SequentialOrder
    \/ FinalSort
    \/ ApplyDayFinalAyahOverride
    \/ ApplyMarkerTimeOverrides
    \/ FillOverrideSurahRange

Spec == Init /\ [][Next]_vars

\* the matcher's loop alone, on the wider menu of segments
MatchAnySegment == MatchWith(WideMenu)

NextMatch == MatchAnySegment

SpecMatch == Init /\ [][NextMatch]_vars

\* the matcher's loop on the runs in which the reciter goes back
MatchRepeatSegment == MatchUpTo(RepeatMenu, MaxRepeatSegments)

NextRepeat == MatchRepeatSegment

SpecRepeat == Init /\ [][NextRepeat]_vars

\* the matcher's loop in a process that may have run the engine before
NextInProcess == MatchAnySegment

SpecInProcess == InitInProcess /\ [][NextInProcess]_vars

\* the post-processor chain (lines 3708-3788) on marker lists of its own
NextChain ==
    \/ CoverageFill
    \/ Dedupe
    \/ ResolveOverlaps
    \/ RefineWeakBoundaries
    \/ RefineInferred
    \/ DelayAfterResets
    \/ QuranFirstRefine
    \/ Redistribute
    \/ Stabilize
    \/ ExtendPoints
    \/ Prune
    \/ TransitionOrder
    \/ LongAyahFloor
    \/ PostFill
    \/ SequentialOrder
    \/ FinalSort

SpecChain == InitChain /\ [][NextChain]_vars

\* the chain and then process_day's override layer, on marker lists of their
\* own
NextLists ==
    \/ NextChain
    \/ ApplyDayFinalAyahOverride
    \/ ApplyMarkerTimeOverrides
    \/ FillOverrideSurahRange

SpecLists == InitChain /\ [][NextLists]_vars

\* match_quran_markers called on a transcript of its own: the loop, the gap
\* fill and the chain
MatchEngineSegment == MatchUpTo(EngineMenu, MaxSegments)

NextEngine ==
    \/ MatchEngineSegment
    \/ ReturnEmpty
    \/ InferGaps
    \/ NextChain

SpecEngine == Init /\ [][NextEngine]_vars

\* ------------------------------------------------------------------------
\* match_quran_markers on a recitation of surah 4 with anchors far apart: a
\* first segment for 4:1, then the next ayah, a long-jump recovery 9 or 10
\* ayat ahead 40 seconds later, or a re-anchor point two ayat ahead after a
\* break of 800 seconds
\* ------------------------------------------------------------------------
FarMenu ==
    { Template(4, 6, "text", 7, "high", 0, "none", None),
      Template(4, 6, "text", 1, "high", 0, "none", None),
      Template(40, 6, "text", 9, "high", 0, "none", None),
      Template(40, 6, "text", 10, "high", 0, "none", None),
      Template(800, 6, "text", 1, "high", 0, "none", 8) }

MatchFarSegment == MatchUpTo(FarMenu, MaxSegments)

NextFarAnchors ==
    \/ MatchFarSegment
    \/ ReturnEmpty
    \/ InferGaps
    \/ NextChain

SpecFarAnchors == Init /\ [][NextFarAnchors]_vars

\* ------------------------------------------------------------------------
\* A corpus that holds surah 1 only, under the display names a corpus file
\* may give it; names are sequences of characters, an Arabic letter written
\* by its Unicode name
\* ------------------------------------------------------------------------
SurahOneNames ==
    { <<"A", "l", "-", "F", "a", "t", "i", "h", "a">>,
      <<"A", "L", " ", "F", "A", "A", "T", "I", "H", "A">>,
      <<"a", "l", "-", "F", "a", "t", "i", "h", "a", "h">>,
      <<"ALEF", "LAM", "FEH", "ALEF", "TEH", "HAH", "TEH MARBUTA">>,
      <<"A", "l", "-", "F", "a", "t", "e", "h", "a", "h">>,
      <<"T", "h", "e", " ", "O", "p", "e", "n", "i", "n", "g">> }

\* str.casefold on the letters of the names
casefold(c) ==
    CASE c = "A" -> "a" [] c = "F" -> "f" [] c = "H" -> "h" [] c = "I" -> "i"
      [] c = "L" -> "l" [] c = "O" -> "o" [] c = "T" -> "t" [] OTHER -> c

\* sub in s
Contains(s, sub) ==
    \E i \in 1 .. (Len(s) - Len(sub) + 1) : SubSeq(s, i, i + Len(sub) - 1) = sub

\* is_excluded_surah
is_excluded_surah(surah) ==
    LET normalized == SelectSeq([i \in DOMAIN surah |-> casefold(surah[i])],
                                LAMBDA c : c \notin {"-", " "})
    IN  \/ Contains(normalized, <<"f", "a", "t", "i", "h", "a">>)
        \/ Contains(normalized, <<"f", "a", "a", "t", "i", "h", "a">>)
        \/ Contains(surah, <<"FEH", "ALEF", "TEH", "HAH", "TEH MARBUTA">>)

\* the corpus: the first two ayat of surah 1 under a display name
SurahOneCorpus(name) ==
    <<[sn |-> 1, ay |-> 1, surah |-> name], [sn |-> 1, ay |-> 2, surah |-> name]>>

\* the segments: the basmala (ayah 1, which holds one Fatiha hint, the
\* 13-character phrase 2, and so is not Fatiha-like) heard at several
\* levels, a Fatiha-like segment and a segment under 14 normalised characters
SurahOneMenu ==
    { [k |-> "text", index |-> 0, lv |-> "high"],
      [k |-> "text", index |-> 0, lv |-> "exact"],
      [k |-> "text", index |-> 0, lv |-> "amb"],
      [k |-> "text", index |-> 0, lv |-> "weak"],
      [k |-> "fatiha", index |-> 0, lv |-> "none"],
      [k |-> "short", index |-> 0, lv |-> "none"] }

\* evaluate_index on that corpus: the exclusion test comes first
evaluate_named_index(corpus, seg, index) ==
    IF index < 0 \/ index >= Len(corpus) THEN NoCand
    ELSE IF is_excluded_surah(corpus[index + 1].surah) THEN NoCand
    ELSE IF ~(seg.k = "text" /\ seg.index = index) THEN NoCand
    ELSE [adj |-> LevelScore(seg.lv) + 2, sc |-> LevelScore(seg.lv),
          ov |-> LevelOverlap(seg.lv), st |-> seg.s, en |-> seg.e]

\* first-time acquisition on that corpus (lines 2921-2956) and the strict
\* re-acquire guard (lines 3063-3074): the marker emitted, or NoMarker
acquire_named(corpus, seg, awaiting) ==
    LET cands == {i \in 0 .. (Len(corpus) - 1) : evaluate_named_index(corpus, seg, i) # NoCand}
        top_score == SetMax({evaluate_named_index(corpus, seg, i).adj : i \in cands}, -1)
        top_index == SetMin({i \in cands : evaluate_named_index(corpus, seg, i).adj = top_score}, None)
        top == evaluate_named_index(corpus, seg, top_index)
        v == candidate_is_valid(top, -1, min_score, min_overlap, Max(700, min_confidence),
                                ambiguous_min_score, ambiguous_min_confidence)
        strict_fail == awaiting /\ (\/ v.quality # "high"
                                    \/ top.adj < Max(82, min_score + 4)
                                    \/ top.ov < Max(220, min_overlap + 40)
                                    \/ v.conf < Max(780, min_confidence + 120))
    IN  IF cands = {} THEN NoMarker
        ELSE IF ~v.valid \/ strict_fail THEN NoMarker
        ELSE Marker(seg.s, Max(seg.s, seg.e), corpus[top_index + 1].sn,
                    corpus[top_index + 1].ay, v.quality, v.conf)

\* one iteration of the matcher's loop on that corpus while nothing has been
\* matched; the display name is chosen with the first segment
MatchSurahOneSegment ==
    /\ pc = "loop"
    /\ markers = <<>>
    /\ Len(transcript) < MaxSegments
    /\ \E name \in (IF transcript = <<>> THEN SurahOneNames ELSE {last.surah}) :
       \E tpl \in SurahOneMenu :
       \E seg \in {[s |-> (IF previous_segment_end = None THEN 0 ELSE previous_segment_end) + 4,
                     e |-> (IF previous_segment_end = None THEN 0 ELSE previous_segment_end) + 10,
                     k |-> tpl.k, index |-> tpl.index, lv |-> tpl.lv]} :
       \E F \in {is_fatiha_like_segment(seg, FATIHA_HINTS_NORM)} :
       \E N \in {is_non_recitation_segment(seg, NON_RECITATION_HINTS_NORM)} :
       \E m \in {IF F.result \/ N.result \/ NormalizedLen(seg) < 14 THEN NoMarker
                  ELSE acquire_named(SurahOneCorpus(name), seg, awaiting_reacquire)} :
         /\ transcript' = Append(transcript, seg)
         /\ previous_segment_end' = seg.e
         /\ FATIHA_HINTS_NORM' = F.memo
         /\ NON_RECITATION_HINTS_NORM' = IF F.result THEN NON_RECITATION_HINTS_NORM ELSE N.memo
         /\ fatiha_reset_times' = IF F.result THEN Append(fatiha_reset_times, seg.s)
                                   ELSE fatiha_reset_times
         /\ awaiting_reacquire' = IF F.result THEN TRUE
                                   ELSE IF m # NoMarker THEN FALSE ELSE awaiting_reacquire
         /\ reacquire_lock_ayahs_remaining' =
                IF F.result THEN Max(reacquire_lock_ayahs_remaining, 8)
                ELSE IF m # NoMarker /\ reacquire_lock_ayahs_remaining > 0
                THEN reacquire_lock_ayahs_remaining - 1
                ELSE reacquire_lock_ayahs_remaining
         /\ stale_segments' = IF F.result \/ NormalizedLen(seg) < 14 THEN stale_segments
                               ELSE IF m = NoMarker THEN stale_segments + 1 ELSE 0
         /\ markers' = IF m = NoMarker THEN markers ELSE Append(markers, m)
         /\ last_marker_time' = IF m = NoMarker THEN last_marker_time ELSE m.t
         /\ last' = [outcome |-> IF m = NoMarker THEN "skip" ELSE "emit", surah |-> name,
                     segment |-> seg]
    /\ UNCHANGED <<pc, forced_start_index, reanchor_cursor, marker_positions,
                   last_matched_index, pause_reacquire_until, precomputed_reset_times,
                   matched_markers, day_config>>

NextSurahOne == MatchSurahOneSegment

\* a run without a start override
InitSurahOne == Init /\ forced_start_index = None

SpecSurahOne == InitSurahOne /\ [][NextSurahOne]_vars

\* ------------------------------------------------------------------------
\* Text normalisation (quran.py lines 14-27 and 136-153); a text is a
\* sequence of characters, an Arabic character written by its Unicode name
\* ------------------------------------------------------------------------
\* ARABIC_DIACRITICS: U+0610-061A, U+064B-065F, U+0670, U+06D6-06ED
ARABIC_DIACRITICS == {"FATHA", "SHADDA", "SUPERSCRIPT ALEF"}

\* the characters ARABIC_PUNCT leaves alone: U+0621-063A, U+0641-064A and
\* white space; tatweel (U+0640) and alef wasla (U+0671) are outside
ARABIC_LETTERS ==
    {"HAMZA", "ALEF WITH MADDA ABOVE", "ALEF WITH HAMZA ABOVE", "ALEF WITH HAMZA BELOW",
     "ALEF", "BEH", "TEH MARBUTA", "TEH", "HAH", "FEH", "LAM", "HEH", "ALEF MAKSURA", "YEH"}

\* ARABIC_CHAR_MAP; "" deletes the character
ARABIC_CHAR_MAP(c) ==
    CASE c \in {"ALEF WITH HAMZA ABOVE", "ALEF WITH HAMZA BELOW",
                "ALEF WITH MADDA ABOVE", "ALEF WASLA"} -> "ALEF"
      [] c = "ALEF MAKSURA" -> "YEH"
      [] c = "TEH MARBUTA" -> "HEH"
      [] c = "TATWEEL" -> ""
      [] OTHER -> c

\* MULTI_SPACE.sub(" ", text)
RECURSIVE multi_space(_)
multi_space(text) ==
    IF Len(text) < 2 THEN text
    ELSE IF text[1] = " " /\ text[2] = " " THEN multi_space(Tail(text))
    ELSE <<text[1]>> \o multi_space(Tail(text))

\* str.strip
RECURSIVE strip(_)
strip(text) ==
    IF text = <<>> THEN text
    ELSE IF text[1] = " " THEN strip(Tail(text))
    ELSE IF text[Len(text)] = " " THEN strip(SubSeq(text, 1, Len(text) - 1))
    ELSE text

\* str.split(): the tokens between runs of white space
RECURSIVE split(_)
split(text) ==
    IF text = <<>> THEN <<>>
    ELSE IF text[1] = " " THEN split(Tail(text))
    ELSE LET n == IF \E i \in DOMAIN text : text[i] = " "
                  THEN (CHOOSE i \in DOMAIN text :
                           text[i] = " " /\ \A j \in 1 .. (i - 1) : text[j] # " ") - 1
                  ELSE Len(text)
         IN  <<SubSeq(text, 1, n)>> \o split(SubSeq(text, n + 1, Len(text)))

\* " ".join(tokens)
RECURSIVE join(_)
join(tokens) ==
    IF tokens = <<>> THEN <<>>
    ELSE IF Len(tokens) = 1 THEN tokens[1]
    ELSE tokens[1] \o <<" ">> \o join(Tail(tokens))

\* the loop of lines 147-151: a token equal to the one kept last is dropped
RECURSIVE collapse_tokens(_, _)
collapse_tokens(tokens, collapsed) ==
    IF tokens = <<>> THEN collapsed
    ELSE IF collapsed = <<>> \/ tokens[1] # collapsed[Len(collapsed)]
    THEN collapse_tokens(Tail(tokens), Append(collapsed, tokens[1]))
    ELSE collapse_tokens(Tail(tokens), collapsed)

\* a normaliser that joins the tokens as they were split
normalize_arabic_without_collapse(text, strict) ==
    LET bare == SelectSeq(text, LAMBDA c : c \notin ARABIC_DIACRITICS)
        mapped == IF strict THEN bare
                  ELSE SelectSeq([i \in DOMAIN bare |-> ARABIC_CHAR_MAP(bare[i])],
                                 LAMBDA c : c \notin {"", "TATWEEL"})
        spaced == [i \in DOMAIN mapped |->
                      IF mapped[i] \in ARABIC_LETTERS \cup {" "} THEN mapped[i] ELSE " "]
        stripped == strip(multi_space(spaced))
    IN  IF ~strict /\ stripped # <<>> THEN join(split(stripped)) ELSE stripped

\* normalize_arabic
normalize_arabic(text, strict) ==
    LET bare == SelectSeq(text, LAMBDA c : c \notin ARABIC_DIACRITICS)
        mapped == IF strict THEN bare
                  ELSE SelectSeq([i \in DOMAIN bare |-> ARABIC_CHAR_MAP(bare[i])],
                                 LAMBDA c : c \notin {"", "TATWEEL"})
        spaced == [i \in DOMAIN mapped |->
                      IF mapped[i] \in ARABIC_LETTERS \cup {" "} THEN mapped[i] ELSE " "]
        stripped == strip(multi_space(spaced))
    IN  IF ~strict /\ stripped # <<>>
        THEN join(collapse_tokens(split(stripped), <<>>))
        ELSE stripped

\* the texts handed to the normaliser: letters the map rewrites and letters
\* it keeps, a diacritic, tatweel, a punctuation mark and the space
MaxTextLen == 4

TextAlphabet ==
    {"ALEF", "ALEF WITH HAMZA ABOVE", "ALEF WASLA", "BEH", "FATHA", "TATWEEL", ",", " "}

RECURSIVE TextsOfLen(_)
TextsOfLen(n) ==
    IF n = 0 THEN {<<>>}
    ELSE {Append(t, c) : t \in TextsOfLen(n - 1), c \in TextAlphabet}

Texts == UNION {TextsOfLen(n) : n \in 0 .. MaxTextLen}

\* a process that has a text to normalise and has not started a run
InitNormalize ==
    /\ FATIHA_HINTS_NORM = <<>>
    /\ NON_RECITATION_HINTS_NORM = <<>>
    /\ pc = "loop"
    /\ transcript = <<>>
    /\ forced_start_index = None
    /\ reanchor_cursor = 0
    /\ markers = <<>>
    /\ marker_positions = [i \in CorpusIdx |-> 0]
    /\ last_matched_index = -1
    /\ last_marker_time = -1
    /\ stale_segments = 0
    /\ precomputed_reset_times = <<>>
    /\ fatiha_reset_times = <<>>
    /\ awaiting_reacquire = FALSE
    /\ pause_reacquire_until = None
    /\ previous_segment_end = None
    /\ reacquire_lock_ayahs_remaining = 0
    /\ last \in {[outcome |-> "text", text |-> text, strict |-> strict] :
                    text \in Texts, strict \in BOOLEAN}
    /\ matched_markers = <<>>
    /\ day_config = NoDayConfig

\* a call of normalize_arabic
NormalizeText ==
    /\ last.outcome = "text"
    /\ last' = [outcome |-> "normalized", text |-> last.text, strict |-> last.strict,
                result |-> normalize_arabic(last.text, last.strict)]
    /\ UNCHANGED <<pc, markers, matched_markers, day_config, transcript,
                   forced_start_index, reanchor_cursor, marker_positions,
                   last_matched_index, last_marker_time, stale_segments,
                   precomputed_reset_times, fatiha_reset_times, awaiting_reacquire,
                   pause_reacquire_until, previous_segment_end,
                   reacquire_lock_ayahs_remaining, FATIHA_HINTS_NORM,
                   NON_RECITATION_HINTS_NORM>>

NextNormalize == NormalizeText

SpecNormalize == InitNormalize /\ [][NextNormalize]_vars

\* ------------------------------------------------------------------------
\* Loading the corpus (quran.py lines 895-926)
\* ------------------------------------------------------------------------
MaxCorpusSurahs == 2

MaxSurahAyahs == 1

\* the "ayahs" of a payload: numbers in and out of range; a text, a text of
\* diacritics only, and no text
PayloadAyahs ==
    {[number |-> n, text |-> t] : n \in {0, 1},
                                  t \in {<<>>, <<"FATHA">>, <<"BEH", "FATHA">>}}

RECURSIVE SeqsUpTo(_, _)
SeqsUpTo(S, n) ==
    IF n = 0 THEN {<<>>}
    ELSE SeqsUpTo(S, n - 1) \cup
         {Append(q, x) : q \in {r \in SeqsUpTo(S, n - 1) : Len(r) = n - 1}, x \in S}

\* the "surahs" of a payload
PayloadSurahs ==
    {[number |-> n, name |-> "Al-Baqara", ayahs |-> a] :
        n \in {0, 2, 115}, a \in SeqsUpTo(PayloadAyahs, MaxSurahAyahs)}

Payloads == SeqsUpTo(PayloadSurahs, MaxCorpusSurahs)

\* the entries of one surah: "for ayah in surah.get('ayahs', [])"
RECURSIVE surah_entries(_, _)
surah_entries(surah, k) ==
    IF k > Len(surah.ayahs) THEN <<>>
    ELSE LET ayah == surah.ayahs[k]
             normalized == normalize_arabic(strip(ayah.text), FALSE)
         IN  (IF normalized = <<>> THEN <<>>
              ELSE <<[sn |-> surah.number, surah |-> surah.name, ay |-> ayah.number,
                      normalized |-> normalized]>>)
             \o surah_entries(surah, k + 1)

\* load_corpus on a file that exists: the function has no raise statement
\* and tests no number; it returns the entries it built
RECURSIVE load_corpus(_)
load_corpus(surahs) ==
    IF surahs = <<>> THEN [raised |-> FALSE, entries |-> <<>>]
    ELSE [raised |-> FALSE,
          entries |-> surah_entries(surahs[1], 1) \o load_corpus(Tail(surahs)).entries]

\* a process that has read a corpus payload and has not started a run
InitCorpus ==
    /\ FATIHA_HINTS_NORM = <<>>
    /\ NON_RECITATION_HINTS_NORM = <<>>
    /\ pc = "loop"
    /\ transcript = <<>>
    /\ forced_start_index = None
    /\ reanchor_cursor = 0
    /\ markers = <<>>
    /\ marker_positions = [i \in CorpusIdx |-> 0]
    /\ last_matched_index = -1
    /\ last_marker_time = -1
    /\ stale_segments = 0
    /\ precomputed_reset_times = <<>>
    /\ fatiha_reset_times = <<>>
    /\ awaiting_reacquire = FALSE
    /\ pause_reacquire_until = None
    /\ previous_segment_end = None
    /\ reacquire_lock_ayahs_remaining = 0
    /\ last \in {[outcome |-> "payload", payload |-> p] : p \in Payloads}
    /\ matched_markers = <<>>
    /\ day_config = NoDayConfig

\* "corpus_entries = load_corpus(corpus_path)" (pipeline.py line 800)
LoadCorpus ==
    /\ last.outcome = "payload"
    /\ last' = [outcome |-> "loaded", payload |-> last.payload,
                result |-> load_corpus(last.payload)]
    /\ UNCHANGED <<pc, markers, matched_markers, day_config, transcript,
                   forced_start_index, reanchor_cursor, marker_positions,
                   last_matched_index, last_marker_time, stale_segments,
                   precomputed_reset_times, fatiha_reset_times, awaiting_reacquire,
                   pause_reacquire_until, previous_segment_end,
                   reacquire_lock_ayahs_remaining, FATIHA_HINTS_NORM,
                   NON_RECITATION_HINTS_NORM>>

NextCorpus == LoadCorpus

SpecCorpus == InitCorpus /\ [][NextCorpus]_vars

\* ------------------------------------------------------------------------
\* Runs with a re-anchor schedule: points at the start of surah 2, inside it,
\* at its end and at the start of surah 3, between recited segments
\* ------------------------------------------------------------------------
ReanchorMenu ==
    { Template(4, 6, "text", 1, "high", 0, "none", None),
      Template(4, 6, "text", 1, "weak", 0, "none", None),
      Template(4, 6, "text", 2, "high", 0, "none", None),
      Template(4, 6, "fatiha", 0, "none", 0, "none", None),
      Template(20, 6, "text", 1, "exact", 0, "none", 0),
      Template(20, 6, "text", 1, "exact", 0, "none", 1),
      Template(20, 6, "text", 1, "exact", 0, "none", 3),
      Template(20, 6, "text", 1, "amb", 0, "none", 3),
      Template(60, 6, "text", 1, "exact", 0, "none", 4) }

MatchReanchorSegment == MatchUpTo(ReanchorMenu, MaxSegments)

NextReanchor == MatchReanchorSegment

SpecReanchor == Init /\ [][NextReanchor]_vars

\* ------------------------------------------------------------------------
\* The local-time dedupe and the progression prune called on lists of their
\* own, each a second time on its own result
\* ------------------------------------------------------------------------
MaxPassMarkers == 4

\* a list in time order, as the passes before these two leave it
TimeOrdered(ms) == \A k \in 1 .. (Len(ms) - 1) : ms[k].t <= ms[k + 1].t

ListsUpTo(S, n) == UNION {{f \in [1 .. k -> S] : TimeOrdered(f)} : k \in 0 .. n}

\* markers of two ayat inside and outside the 90 s window, of two ranks and,
\* at the same rank, two confidences
DedupeInputMarkers ==
    {Marker(t, t, 2, ay, qc[1], qc[2]) :
        t \in {0, 10, 80, 160}, ay \in {1, 2},
        qc \in {<<"inferred", 560>>, <<"high", 823>>, <<"high", 900>>}}

\* markers on the same second, a second apart and ten seconds apart, of
\* ayat one and several steps apart, in two surahs
PruneInputMarkers ==
    {Marker(t, t, e[1], e[2], q, IF q = "high" THEN 823 ELSE 560) :
        t \in {0, 1, 10}, e \in {<<2, 1>>, <<2, 2>>, <<2, 4>>, <<3, 1>>},
        q \in {"inferred", "high"}}

InitPasses ==
    /\ FATIHA_HINTS_NORM = <<>>
    /\ NON_RECITATION_HINTS_NORM = <<>>
    /\ pc \in {"dedupe_input", "prune_input"}
    /\ markers \in IF pc = "dedupe_input" THEN ListsUpTo(DedupeInputMarkers, MaxPassMarkers)
                   ELSE ListsUpTo(PruneInputMarkers, MaxPassMarkers)
    /\ transcript = <<>>
    /\ forced_start_index = None
    /\ reanchor_cursor = 0
    /\ marker_positions = [i \in CorpusIdx |-> 0]
    /\ last_matched_index = -1
    /\ last_marker_time = -1
    /\ stale_segments = 0
    /\ precomputed_reset_times = <<>>
    /\ fatiha_reset_times = <<>>
    /\ awaiting_reacquire = FALSE
    /\ pause_reacquire_until = None
    /\ previous_segment_end = None
    /\ reacquire_lock_ayahs_remaining = 0
    /\ last = [outcome |-> "input", input |-> markers, once |-> <<>>]
    /\ matched_markers = <<>>
    /\ day_config = NoDayConfig

\* a pass applied to the list, and then to its own result
ApplyPass(from, once, twice, result) ==
    /\ pc \in {from, once}
    /\ markers' = result
    /\ pc' = IF pc = from THEN once ELSE twice
    /\ last' = IF pc = from THEN [last EXCEPT !.outcome = "once", !.once = result]
               ELSE [last EXCEPT !.outcome = "twice"]
    /\ UNCHANGED <<matched_markers, day_config, transcript,
                   forced_start_index, reanchor_cursor, marker_positions,
                   last_matched_index, last_marker_time, stale_segments,
                   precomputed_reset_times, fatiha_reset_times, awaiting_reacquire,
                   pause_reacquire_until, previous_segment_end,
                   reacquire_lock_ayahs_remaining, FATIHA_HINTS_NORM,
                   NON_RECITATION_HINTS_NORM>>

\* "merged = _dedupe_by_local_time_window(merged, window_seconds=90)"
ApplyDedupe ==
    ApplyPass("dedupe_input", "deduped_once", "deduped_twice",
              dedupe_by_local_time_window(markers, 90))

\* "merged = _prune_unrealistic_progression(merged)"
ApplyPrune ==
    ApplyPass("prune_input", "pruned_once", "pruned_twice",
              prune_unrealistic_progression(markers))

NextPasses == ApplyDedupe \/ ApplyPrune

SpecPasses == InitPasses /\ [][NextPasses]_vars

\* ------------------------------------------------------------------------
\* Properties
\* ------------------------------------------------------------------------
\* a loop iteration has run, and "last" describes it
Stepped == last.outcome # "none"

\* the corpus indices whose marker the latest iteration appended or replaced
EmittedIdx ==
    {i \in CorpusIdx :
        /\ marker_positions[i] # 0
        /\ \/ last.before.marker_positions[i] = 0
           \/ LET new == markers[marker_positions[i]]
                  old == last.before.markers[last.before.marker_positions[i]]
              IN  new.t # old.t \/ new.q # old.q \/ new.cf # old.cf}

\* C4 as stated: the pointer never decreases except in the step where a
\* re-anchor point fires, and every marker emitted for a segment has a linear
\* index strictly greater than the pointer held before that segment.
C4_ForwardOnly ==
    Stepped =>
        /\ last.reanchored \/ last_matched_index >= last.before.last_matched_index
        /\ \A i \in EmittedIdx : i > last.before.last_matched_index

\* C4 amended: the pointer never decreases except in the step where a
\* re-anchor point fires; the ayah accepted for a segment has an index above
\* the pointer in force for that segment (the pointer held before it, or the
\* re-anchored pointer, mapped index - 1, where a point fires); and the
\* transition-tail markers emitted with a segment have indices above that of
\* the last marker of the list before the segment.
C4_ForwardOnlyAmended ==
    Stepped =>
        /\ last.reanchored \/ last_matched_index >= last.before.last_matched_index
        /\ last.emitted # None => last.emitted > last.pointer
        /\ \A i \in EmittedIdx \ {last.emitted} :
               /\ last.before.markers # <<>>
               /\ i > IndexOf(last.before.markers[Len(last.before.markers)].sn,
                              last.before.markers[Len(last.before.markers)].ay)

\* a re-anchor point moved the pointer back and the segment was then accepted
C4_Witness ==
    /\ Stepped
    /\ last.reanchored
    /\ last.pointer < last.before.last_matched_index
    /\ last.emitted # None
    /\ last.emitted <= last.before.last_matched_index
    /\ last.emitted \in EmittedIdx

\* the latest segment carries repeat-threshold evidence for entry i, which
\* already has a marker, beating the forward probe by at least 1
RepeatEvidence(i) ==
    LET cand == evaluate_index(last.segment, i)
        forward_best_score ==
            SetMax({evaluate_index(last.segment, j).adj :
                        j \in Candidates(last.segment, {last.pointer + 1, last.pointer + 2})},
                   -1)
    IN  /\ cand # NoCand
        /\ last.before.marker_positions[i] # 0
        /\ cand.adj >= repeat_min_score
        /\ cand.ov >= repeat_min_overlap
        /\ candidate_confidence(cand.adj, 0, cand.ov) >= repeat_min_confidence * 100
        /\ cand.adj >= forward_best_score + 1

\* the marker of entry i before the latest segment
MarkerBefore(i) == last.before.markers[last.before.marker_positions[i]]

\* the pointer is as before, nothing was emitted, and entry i's marker ends later
RepeatExtended(i) ==
    /\ last_matched_index = last.before.last_matched_index
    /\ EmittedIdx = {}
    /\ Len(markers) = Len(last.before.markers)
    /\ markers[marker_positions[i]].en > MarkerBefore(i).en

\* C8 as stated: a segment with repeat-threshold evidence for an ayah that
\* already has a marker leaves the pointer unchanged, emits no marker and
\* leaves that ayah's end_time strictly greater than before.
C8_RepeatExtension ==
    Stepped => \A i \in CorpusIdx : RepeatEvidence(i) => RepeatExtended(i)

\* the conditions under which the repeat block extends entry i's marker
RepeatApplies(i) ==
    LET existing == MarkerBefore(i)
        lookback == Max(1, Min(8, repeat_lookback_ayahs))
        later == {k \in DOMAIN last.before.markers :
                     /\ last.before.markers[k].sn = existing.sn
                     /\ last.before.markers[k].ay > existing.ay
                     /\ StartOf(last.before.markers[k]) > StartOf(existing)}
    IN  /\ RepeatEvidence(i)
        /\ last.outcome \notin {"fatiha", "nonrec", "held", "short"}
        /\ ~last.awaiting
        /\ last.pointer >= 0
        /\ i \in (last.pointer - lookback + 1) .. last.pointer
        /\ last.segment.s - EndOr(existing, StartOf(existing))
               <= Max(8, repeat_max_gap_seconds)
        /\ last.segment.e > EndOr(existing, StartOf(existing))
        /\ later = {}

\* C8 amended: when a segment that reaches repeat detection while the matcher
\* is not awaiting reacquire carries repeat-threshold evidence for an ayah
\* within the repeat lookback of the pointer that already has a marker, no
\* later ayah of that surah is marked, and the segment starts within
\* max(8, repeat_max_gap_seconds) seconds of that marker's end and ends after
\* it, then the pointer is unchanged, no marker is emitted and that ayah's
\* end_time is strictly greater than before.
C8_RepeatExtensionAmended ==
    Stepped => \A i \in CorpusIdx : RepeatApplies(i) => RepeatExtended(i)

\* a repeat of the pointer's ayah was heard in time and its marker extended
C8_Witness ==
    /\ Stepped
    /\ \E i \in CorpusIdx : RepeatApplies(i) /\ RepeatExtended(i)
    /\ last.outcome = "repeat"

\* the lists the claims call final: the one match_quran_markers returns and
\* the one process_day writes out
FinalList == pc \in {"returned", "emitted"}

\* C1: the final marker list is ordered by start_time, ties by
\* (surah_number, ayah) ascending.
C1_FinalListOrdered ==
    FinalList => \A k \in 1 .. (Len(markers) - 1) :
                     /\ markers[k].st <= markers[k + 1].st
                     /\ KeyLE(markers[k], markers[k + 1])

\* a marker override moved an ayah of the next surah to the head of the list
C1_Witness ==
    /\ pc = "emitted"
    /\ day_config.marker_overrides # <<>>
    /\ Len(markers) >= 3
    /\ markers[1].q = "manual"
    /\ \E k \in DOMAIN markers : markers[k].sn < markers[1].sn

\* C2: in the final list each (surah_number, ayah) occurs at most once and
\* the ayat of a surah are strictly ascending in list order.
C2_AyahsAscendInList ==
    FinalList => \A i, j \in DOMAIN markers :
                     (i < j /\ markers[i].sn = markers[j].sn)
                         => markers[i].ay < markers[j].ay

\* C3: end_time >= start_time for every marker, in the final list and after
\* every post-processor pass and every override step.
C3_EndNotBeforeStart ==
    \A k \in DOMAIN markers : markers[k].en >= markers[k].st

\* the sequential-order pass moved a matched marker past its own end
C3_Witness ==
    /\ pc = "sequenced"
    /\ \E k \in DOMAIN markers :
           /\ markers[k].q = "high"
           /\ markers[k].en = markers[k].st
           /\ \E j \in DOMAIN markers :
                  /\ markers[j].sn = markers[k].sn
                  /\ markers[j].ay < markers[k].ay
                  /\ markers[j].st < markers[k].st
                  /\ markers[j].q = "inferred"

\* C5: every marker override whose ayah is in the corpus has exactly one
\* marker in the output, manual with confidence 1.0, starting at the
\* override's start_time and ending no earlier, whatever the matcher produced.
C5_OverridePrecedence ==
    pc = "emitted" =>
        \A n \in DOMAIN day_config.marker_overrides :
            LET item == day_config.marker_overrides[n]
                named == {k \in DOMAIN markers : /\ markers[k].sn = item.surah_number
                                                 /\ markers[k].ay = item.ayah}
            IN  InCorpus(item.surah_number, item.ayah) =>
                    /\ Cardinality(named) = 1
                    /\ \A k \in named : /\ markers[k].q = "manual"
                                        /\ markers[k].cf = 1000
                                        /\ markers[k].st = item.start_time
                                        /\ markers[k].en >= markers[k].st

\* C6: no marker of the final output names an ayah absent from the corpus.
C6_CorpusIsolation ==
    FinalList => \A k \in DOMAIN markers : InCorpus(markers[k].sn, markers[k].ay)

\* C7: no inferred or ambiguous marker of the final list starts within
\* (r, r + 34] of a recorded reset time r.
C7_ResetHold ==
    FinalList =>
        \A k \in DOMAIN markers : \A n \in DOMAIN fatiha_reset_times :
            markers[k].q \in {"inferred", "ambiguous"} =>
                ~(/\ fatiha_reset_times[n] < markers[k].st
                  /\ markers[k].st <= fatiha_reset_times[n] + 34)

\* C9: when the terminal ayah of surah N and a marker of surah N + 1 are
\* both in the final list, the latter starts at least min_gap_seconds after
\* the terminal marker.
C9_TransitionFloor ==
    FinalList =>
        \A i, j \in DOMAIN markers :
            (/\ markers[i].sn # None
             /\ markers[i].ay = SurahTotal(markers[i].sn, 0)
             /\ markers[j].sn = markers[i].sn + 1)
                => markers[j].st >= markers[i].st + min_gap_seconds

\* C10: in the final list, consecutive ayat of a surah overlap by at most 1 s.
C10_AdjacentOverlap ==
    FinalList =>
        \A i, j \in DOMAIN markers :
            (markers[i].sn = markers[j].sn /\ markers[j].ay = markers[i].ay + 1)
                => markers[j].st >= markers[i].en - 1

\* the loop iteration "last" describes, run again from the same matcher state
\* with the memos f and n
Rerun(f, n) ==
    loop_body(last.segment, [last.before EXCEPT !.FATIHA_HINTS_NORM = f,
                                                !.NON_RECITATION_HINTS_NORM = n], last.ra)

\* what an iteration leaves behind, the memos aside
Forgetting(S) ==
    [S EXCEPT !.FATIHA_HINTS_NORM = <<>>, !.NON_RECITATION_HINTS_NORM = <<>>,
              !.repeated = FALSE, !.emitted = None, !.outcome = "none"]

\* C11: an invocation's result does not depend on what earlier invocations
\* left in the module-level memos: every loop iteration leaves the same
\* matcher state, outcome and emitted marker whether it ran with the memos it
\* found or with any memo an earlier invocation can leave, a fresh process's
\* empty memos included; nothing else is carried between runs.
C11_Determinism ==
    Stepped =>
        \A f \in {<<>>, normalize_hints(FATIHA_HINTS)} :
        \A n \in {<<>>, normalize_hints(NON_RECITATION_HINTS)} :
            /\ Forgetting(Rerun(f, n)) = Forgetting(MatcherState)
            /\ Rerun(f, n).outcome = last.outcome
            /\ Rerun(f, n).emitted = last.emitted

\* the first segment of an invocation met memos an earlier invocation had
\* filled, and was classified against them as recited text and matched
C11_Witness ==
    /\ Stepped
    /\ Len(transcript) = 1
    /\ last.before.FATIHA_HINTS_NORM # <<>>
    /\ last.before.NON_RECITATION_HINTS_NORM # <<>>
    /\ last.outcome = "emit"

\* C12: every marker's confidence lies in [0, 1] (0 .. 1000 permille),
\* whatever candidate the matcher or the gap search accepted.
C12_ConfidenceInUnitInterval ==
    \A k \in DOMAIN markers : 0 <= markers[k].cf /\ markers[k].cf <= 1000

\* the step keeps a manual marker for every ayah that had one
ManualKept ==
    \A k \in DOMAIN markers :
        markers[k].q = "manual" =>
            \E j \in DOMAIN markers' :
                /\ markers'[j].sn = markers[k].sn
                /\ markers'[j].ay = markers[k].ay
                /\ markers'[j].q = "manual"

\* C13: no post-processor pass lowers the quality of a manual marker or
\* removes it: after every pass each ayah that had a manual marker still has
\* one, _prune_unrealistic_progression included.
C13_ManualNeverDemoted == [][ManualKept]_vars

\* C14: whenever the day's override sets both final_surah and final_ayah and
\* that ayah is in the corpus, the list after the override layer holds a
\* marker for (final_surah, final_ayah), also when the matcher returned
\* nothing or the override's filter removes every marker.
C14_TerminalPresent ==
    (/\ pc = "emitted"
     /\ day_config.final_surah # None
     /\ day_config.final_ayah # None
     /\ InCorpus(day_config.final_surah, day_config.final_ayah))
        => \E k \in DOMAIN markers :
               /\ markers[k].sn = day_config.final_surah
               /\ markers[k].ay = day_config.final_ayah

\* the transcript is a run of segments on the consecutive entries a, a + 1,
\* ... of one surah: each has evidence at or above the high thresholds for
\* its entry, starts at least min_gap_seconds after the one before with no
\* long break, and there is no reset phrase, precomputed reset or re-anchor
\* point; alone = the segments have no evidence for any other entry
ConsecutiveHighRun(a, alone) ==
    /\ transcript # <<>>
    /\ precomputed_reset_times = <<>>
    /\ reanchor_cursor = 0
    /\ a + Len(transcript) - 1 \in CorpusIdx
    /\ EntryAt(a + Len(transcript) - 1).sn = EntryAt(a).sn
    /\ \A i \in DOMAIN transcript :
           /\ transcript[i].k = "text"
           /\ transcript[i].ev[a + i - 1] \in {"high", "rep", "exact"}
           /\ alone => transcript[i].ev = Ev1(a + i - 1, transcript[i].ev[a + i - 1])
           /\ i > 1 => /\ transcript[i].s - transcript[i - 1].s >= min_gap_seconds
                       /\ transcript[i].s - transcript[i - 1].e
                              < Max(30, long_break_reacquire_seconds)

\* the matcher returned exactly one marker per segment of the run from a, in
\* order, all of quality high with confidence >= 0.70
OneHighMarkerPerSegment(a) ==
    /\ Len(markers) = Len(transcript)
    /\ \A i \in DOMAIN markers :
           /\ markers[i].sn = EntryAt(a + i - 1).sn
           /\ markers[i].ay = EntryAt(a + i - 1).ay
           /\ markers[i].q = "high"
           /\ markers[i].cf >= 700

\* C15 as stated: after such a run of k segments on the ayat a .. a + k - 1
\* the matcher returns exactly k markers, one per ayah in that order, all of
\* quality high with confidence >= 0.70, and no marker for any other ayah.
C15_ConsecutiveRun ==
    \A a \in CorpusIdx :
        (pc = "returned" /\ ConsecutiveHighRun(a, FALSE)) => OneHighMarkerPerSegment(a)

\* C15 amended: the same, for a run whose segments have no evidence for any
\* entry other than their own.
C15_ConsecutiveRunAlone ==
    \A a \in CorpusIdx :
        (pc = "returned" /\ ConsecutiveHighRun(a, TRUE)) => OneHighMarkerPerSegment(a)

\* a run of three segments on the ayat 2, 3, 4 of surah 2 was matched and
\* post-processed
C15_Witness ==
    /\ pc = "returned"
    /\ ConsecutiveHighRun(1, TRUE)
    /\ Len(transcript) = 3
    /\ OneHighMarkerPerSegment(1)

\* before the last step the list held exactly the markers of the entries
\* a, a + 1, a + 2 of one surah, emitted in that order, with the pointer on
\* a + 2, and the step's segment repeats entry a + 1 with evidence at the
\* repeat thresholds
RepeatsMiddleOfThree(a) ==
    /\ Stepped
    /\ a + 2 \in CorpusIdx
    /\ EntryAt(a + 2).sn = EntryAt(a).sn
    /\ last.before.last_matched_index = a + 2
    /\ Len(last.before.markers) = 3
    /\ \A i \in 1 .. 3 :
           /\ last.before.markers[i].sn = EntryAt(a + i - 1).sn
           /\ last.before.markers[i].ay = EntryAt(a + i - 1).ay
    /\ last.segment.k = "text"
    /\ \E lv \in {"rep", "exact"} : last.segment.ev = Ev1(a + 1, lv)

\* C16: with the default configuration, when a, a + 1, a + 2 have been
\* emitted in order and a later segment starting at s repeats a + 1 with
\* repeat-threshold evidence, the number of markers does not change, the
\* marker of a + 1 has end_time >= s, and the pointer does not decrease.
C16_RepeatOfEarlierAyah ==
    \A a \in CorpusIdx :
        RepeatsMiddleOfThree(a) =>
            /\ Len(markers) = 3
            /\ markers[2].en >= last.segment.s
            /\ last_matched_index >= a + 2

\* the list the matcher's loop ended with: the markers the matcher emitted
LoopMarkers ==
    IF Stepped THEN loop_body(last.segment, last.before, last.ra).markers ELSE <<>>

\* L and R are matcher-emitted markers of one surah with ayat missing between
\* them, and the present list has a marker for every missing ayah
GapFilledBetween(L, R) ==
    /\ L.sn = R.sn
    /\ L.ay + 1 < R.ay
    /\ \A k \in DOMAIN LoopMarkers :
           ~(LoopMarkers[k].sn = L.sn /\ L.ay < LoopMarkers[k].ay /\ LoopMarkers[k].ay < R.ay)
    /\ \A ay \in (L.ay + 1) .. (R.ay - 1) :
           \E k \in DOMAIN markers : markers[k].sn = L.sn /\ markers[k].ay = ay

\* the anchors kept their start_times and the fills lie strictly between
\* them, strictly increasing with the ayah number
FillsOrderedBetween(L, R) ==
    /\ \A A \in {L, R} :
           /\ \E k \in DOMAIN markers :
                  markers[k].sn = A.sn /\ markers[k].ay = A.ay
           /\ \A k \in DOMAIN markers :
                  (markers[k].sn = A.sn /\ markers[k].ay = A.ay) => markers[k].st = A.st
    /\ \A k \in DOMAIN markers :
           (markers[k].sn = L.sn /\ L.ay < markers[k].ay /\ markers[k].ay < R.ay) =>
               /\ L.st < markers[k].st
               /\ markers[k].st < R.st
               /\ \A j \in DOMAIN markers :
                      (markers[j].sn = L.sn /\ markers[k].ay < markers[j].ay
                          /\ markers[j].ay < R.ay) => markers[k].st < markers[j].st

\* C17: whenever the engine's output has markers for the missing ayat between
\* two matcher-emitted markers L and R of one surah, L and R keep the
\* start_times the matcher gave them and the filled markers' start_times are
\* strictly between L's and R's and strictly increasing with the ayah number.
C17_GapFillBetweenAnchors ==
    pc = "returned" =>
        \A l, r \in DOMAIN LoopMarkers :
            GapFilledBetween(LoopMarkers[l], LoopMarkers[r]) =>
                FillsOrderedBetween(LoopMarkers[l], LoopMarkers[r])

\* the transcript is a segment with strong evidence for entry a alone, then
\* a non-recitation phrase, then a segment with strong evidence for entry
\* a + 1 alone
PhraseBetween(a) ==
    /\ a + 1 \in CorpusIdx
    /\ EntryAt(a + 1).sn = EntryAt(a).sn
    /\ Len(transcript) = 3
    /\ transcript[2].k = "nonrec"
    /\ \A i \in {1, 3} :
           /\ transcript[i].k = "text"
           /\ \E lv \in {"high", "rep", "exact"} :
                  transcript[i].ev = Ev1(a + (i - 1) \div 2, lv)

\* C18: when the transcript given to the engine holds ayah a, then a
\* non-recitation phrase starting at r, then a segment with strong evidence
\* for ayah a + 1, the output has a marker for a + 1 of quality high or
\* ambiguous with start_time >= r + non_recitation_hold_seconds, also when
\* the a + 1 segment begins a few seconds after the phrase.
C18_MarkerAfterHold ==
    \A a \in CorpusIdx :
        (pc = "returned" /\ PhraseBetween(a)) =>
            \E k \in DOMAIN markers :
                /\ markers[k].sn = EntryAt(a + 1).sn
                /\ markers[k].ay = EntryAt(a + 1).ay
                /\ markers[k].q \in {"high", "ambiguous"}
                /\ markers[k].st >= transcript[2].s + non_recitation_hold_seconds

\* before the last step the last marker of the list was entry a, the last
\* but n <= 12 of its surah, and the step's segment has strong evidence for
\* entry b alone, the first ayah of the next surah
TransitionAfter(a, b) ==
    /\ Stepped
    /\ last.before.markers # <<>>
    /\ last.before.markers[Len(last.before.markers)].sn = EntryAt(a).sn
    /\ last.before.markers[Len(last.before.markers)].ay = EntryAt(a).ay
    /\ b > a
    /\ b - a - 1 <= 12
    /\ EntryAt(b).sn = EntryAt(a).sn + 1
    /\ EntryAt(b).ay = 1
    /\ last.segment.k = "text"
    /\ \E lv \in {"high", "rep", "exact"} : last.segment.ev = Ev1(b, lv)

\* the list has a marker for entry b and, for every entry after a and before
\* b, a marker that starts between the marker of a and the marker of b
TailFilled(a, b) ==
    \E l, r \in DOMAIN markers :
        /\ markers[l].sn = EntryAt(a).sn /\ markers[l].ay = EntryAt(a).ay
        /\ markers[r].sn = EntryAt(b).sn /\ markers[r].ay = EntryAt(b).ay
        /\ \A i \in (a + 1) .. (b - 1) :
               \E k \in DOMAIN markers :
                   /\ markers[k].sn = EntryAt(i).sn
                   /\ markers[k].ay = EntryAt(i).ay
                   /\ markers[l].st <= markers[k].st
                   /\ markers[k].st <= markers[r].st

\* C19: if the last emitted marker is ayah a of surah N with at most 12 ayat
\* remaining in N and a later segment strongly matches ayah 1 of surah N + 1,
\* the output has a marker for every ayah a + 1 .. last(N), all starting
\* between the two anchors, followed by a marker for ayah 1 of surah N + 1.
C19_TransitionTail ==
    \A a, b \in CorpusIdx :
        (pc = "returned" /\ TransitionAfter(a, b)) => TailFilled(a, b)

\* C20: the override layer runs before the post-processor chain, so every
\* marker an override created or retimed has passed through the
\* post-processors and the list process_day writes out is the output of the
\* chain's last pass, the final sort (kept in matched_markers).
C20_FinalListIsChainOutput ==
    pc = "emitted" => markers = matched_markers

\* the positions of a list that hold a marker of entry i
PositionsOf(ms, i) ==
    {k \in DOMAIN ms : ms[k].sn = EntryAt(i).sn /\ ms[k].ay = EntryAt(i).ay}

\* marker m is strictly better than marker n: a higher quality rank, or the
\* same rank and a higher confidence
StrictlyBetter(m, n) ==
    \/ quality_rank(m.q) > quality_rank(n.q)
    \/ quality_rank(m.q) = quality_rank(n.q) /\ m.cf > n.cf

\* the step leaves fewer markers of entry i than it found
Removes(i) ==
    Cardinality(PositionsOf(markers', i)) < Cardinality(PositionsOf(markers, i))

\* a step that leaves fewer markers of an entry than it found is a dedupe or
\* an overlap resolution, and a marker of the entry that is strictly better
\* than one it found remains
RemovalJustified ==
    \A i \in CorpusIdx :
        Removes(i) =>
            /\ pc \in {"covered", "post_covered", "deduped", "post_deduped"}
            /\ \E j \in PositionsOf(markers', i) : \E k \in PositionsOf(markers, i) :
                   StrictlyBetter(markers'[j], markers[k])

RemovalByRule ==
    \A i \in CorpusIdx :
        Removes(i) =>
            \/ /\ pc \in {"covered", "post_covered"}
               /\ \E j \in PositionsOf(markers', i) : \A k \in PositionsOf(markers, i) :
                      quality_rank(markers'[j].q) >= quality_rank(markers[k].q)
            \/ /\ pc \in {"deduped", "post_deduped"}
               /\ \E k \in PositionsOf(markers, i) :
                      markers[k].q = "inferred" /\ markers[k].cf < 450
            \/ pc \in {"extended", "post_resolved"}
            \/ pc = "returned"

PastFinalAyah(m) ==
    /\ day_config.final_surah # None
    /\ day_config.final_ayah # None
    /\ \/ m.sn > day_config.final_surah
       \/ m.sn = day_config.final_surah /\ m.ay > day_config.final_ayah

\* marker m is one the matcher returned
MatcherProduced(m) ==
    \E k \in DOMAIN matched_markers : matched_markers[k] = m

\* C22: after the final-ayah override is applied with final_surah,
\* final_ayah, start_time and/or final_time set, the list has no
\* matcher-produced marker with time < start_time or time > final_time and no
\* marker past (final_surah, final_ayah) in corpus order.
C22_FilteredToWindow ==
    (pc = "final_ayah_applied" /\ day_config # NoDayConfig
        /\ (day_config.final_ayah # None \/ day_config.final_time # None
               \/ day_config.start_time # None)) =>
        \A k \in DOMAIN markers :
            /\ ~PastFinalAyah(markers[k])
            /\ MatcherProduced(markers[k]) =>
                   /\ day_config.start_time # None => markers[k].t >= day_config.start_time
                   /\ day_config.final_time # None => markers[k].t <= day_config.final_time

\* C23: if the transcript is empty or the matcher's loop accepts no segment
\* (every segment is too short, Fatiha-like, a non-recitation phrase or too
\* weak), the engine returns an empty list: gap fill, leading backfill,
\* coverage fill and the passes after them create no marker when the matcher
\* emitted none.
C23_NothingFromNothing ==
    (pc # "loop" /\ LoopMarkers = <<>>) => markers = <<>>

\* the engine returned an empty list for a transcript of a short segment, a
\* Fatiha-like segment and a non-recitation phrase
C23_Witness ==
    /\ pc = "returned"
    /\ Len(transcript) = 3
    /\ {transcript[i].k : i \in 1 .. 3} = {"short", "fatiha", "nonrec"}
    /\ LoopMarkers = <<>>
    /\ markers = <<>>

\* C24: no marker is produced for an ayah of surah number 1: a corpus that
\* holds surah 1 only yields no marker, whatever display name the corpus
\* gives that surah.
C24_SurahOneExcluded ==
    \A k \in DOMAIN markers : markers[k].sn # 1

\* a payload with a surah without ayat, a surah number outside 1..114 or an
\* ayah number below 1
MalformedPayload(p) ==
    \E i \in DOMAIN p :
        \/ p[i].ayahs = <<>>
        \/ p[i].number < 1 \/ p[i].number > 114
        \/ \E k \in DOMAIN p[i].ayahs : p[i].ayahs[k].number < 1

\* C25: a corpus with a malformed entry (a surah with no ayat, a surah number
\* outside 1..114, an ayah number below 1) is rejected with an error, and no
\* entry list comes out of it.
C25_MalformedRejected ==
    (last.outcome = "loaded" /\ MalformedPayload(last.payload)) =>
        last.result.raised /\ last.result.entries = <<>>

\* C26: normalize_arabic is idempotent in both modes, maps the empty text
\* to the empty text, and a non-strict result never holds two equal adjacent
\* tokens.
C26_NormalizeIdempotent ==
    last.outcome = "normalized" =>
        /\ normalize_arabic(last.result, last.strict) = last.result
        /\ last.text = <<>> => last.result = <<>>
        /\ ~last.strict =>
              \A i \in 1 .. (Len(split(last.result)) - 1) :
                  split(last.result)[i] # split(last.result)[i + 1]

\* a text whose second token equals the first once the diacritic is gone
C26_Witness ==
    /\ last.outcome = "normalized"
    /\ ~last.strict
    /\ last.text = <<"BEH", "FATHA", " ", "BEH">>
    /\ last.result = <<"BEH">>

\* the matcher's state when the latest segment reached the matching steps:
\* after the re-anchor schedule and the long-break test
AtSelection == loop_prelude(last.segment, last.before, last.ra)

\* the latest segment was emitted through the normal-forward step
NormalForwardEmit ==
    /\ Stepped
    /\ last.outcome = "emit"
    /\ last.pointer >= 0
    /\ normal_selection(last.segment, AtSelection).idx # None

\* the latest segment met the matcher awaiting re-acquisition or under lock
Reacquiring ==
    AtSelection.awaiting_reacquire \/ AtSelection.reacquire_lock_ayahs_remaining > 0

\* C27: a marker accepted through the normal-forward step advances the
\* pointer by a jump within 1..max_forward_jump_ayahs, and by exactly 1 while
\* awaiting re-acquisition or under lock, where long-jump recovery is never
\* taken; the lock count stays within 0..8 and drops by exactly 1 on each
\* accepted emission while positive.
C27_ForwardJumpAndLock ==
    /\ NormalForwardEmit =>
          /\ last_matched_index - last.pointer \in 1 .. max_forward_jump_ayahs
          /\ last_matched_index = last.emitted
          /\ Reacquiring => last_matched_index - last.pointer = 1
    /\ (Stepped /\ last.outcome = "emit" /\ last.pointer >= 0 /\ Reacquiring) =>
          NormalForwardEmit
    /\ reacquire_lock_ayahs_remaining \in 0 .. 8
    /\ (Stepped /\ last.outcome = "emit"
          /\ AtSelection.reacquire_lock_ayahs_remaining > 0) =>
          reacquire_lock_ayahs_remaining = AtSelection.reacquire_lock_ayahs_remaining - 1

\* a marker accepted one ayah ahead under lock, the lock count one lower
C27_Witness ==
    /\ NormalForwardEmit
    /\ AtSelection.reacquire_lock_ayahs_remaining > 0
    /\ last_matched_index = last.pointer + 1
    /\ reacquire_lock_ayahs_remaining = AtSelection.reacquire_lock_ayahs_remaining - 1

\* the latest segment reached the matching steps with awaiting_reacquire set
AwaitingAtSelection == Stepped /\ AtSelection.awaiting_reacquire

\* the candidate selected for the latest segment
SelectedAtSelection == select_candidate(last.segment, AtSelection)

\* C28: while awaiting_reacquire is set the matcher emits only for a
\* candidate of quality high that meets the stricter re-acquire thresholds;
\* awaiting_reacquire is cleared only by such an emission, and a rejected
\* segment leaves the pointer and the marker list unchanged.
C28_StrictReacquire ==
    /\ (AwaitingAtSelection /\ last.outcome = "emit") =>
          /\ SelectedAtSelection.q = "high"
          /\ SelectedAtSelection.adj >= Max(82, min_score + 4)
          /\ SelectedAtSelection.ov >= Max(220, min_overlap + 40)
          /\ SelectedAtSelection.cf >= Max(780, min_confidence + 120)
    /\ (AwaitingAtSelection /\ ~awaiting_reacquire) => last.outcome = "emit"
    /\ (AwaitingAtSelection /\ last.outcome # "emit") =>
          /\ last_matched_index = AtSelection.last_matched_index
          /\ markers = last.before.markers

\* the last marker of the list when the latest segment was matched
PreviousMarker == last.before.markers[Len(last.before.markers)]

\* the candidate selected for the latest segment lies in another surah than
\* the last marker
CrossSurahSelected ==
    /\ Stepped
    /\ last.before.markers # <<>>
    /\ last.outcome \in {"emit", "strict_reject", "tail_reject", "transition_reject"}
    /\ SelectedAtSelection.idx # None
    /\ EntryAt(SelectedAtSelection.idx).sn # PreviousMarker.sn

\* the marker list holds the terminal ayah of the last marker's surah
TerminalInList ==
    \E k \in DOMAIN markers :
        /\ markers[k].sn = PreviousMarker.sn
        /\ markers[k].ay = SurahTotal(PreviousMarker.sn, PreviousMarker.ay)

ReanchoredWithStrictEvidence ==
    /\ Stepped
    /\ last.reanchored
    /\ last.outcome \notin {"fatiha", "nonrec", "held", "short"}
    /\ evaluate_index(last.segment, last.ra) # NoCand
    /\ LET cand == evaluate_index(last.segment, last.ra)
           v == candidate_is_valid(cand, -1, min_score, min_overlap, min_confidence,
                                   ambiguous_min_score, ambiguous_min_confidence)
       IN  /\ v.valid
           /\ v.quality = "high"
           /\ cand.adj >= Max(82, min_score + 4)
           /\ cand.ov >= Max(220, min_overlap + 40)
           /\ v.conf >= Max(780, min_confidence + 120)

\* C30: after a re-anchor point whose ayah is in the corpus has fired, the
\* first segment whose evidence for that ayah clears the strict re-acquire
\* thresholds is emitted as a marker for exactly that ayah, wherever the
\* position lies relative to the last emitted marker.
C30_ReanchorEmits ==
    ReanchoredWithStrictEvidence =>
        /\ last.outcome = "emit"
        /\ last.emitted = last.ra
        /\ \E k \in DOMAIN markers :
              /\ markers[k].sn = EntryAt(last.ra).sn
              /\ markers[k].ay = EntryAt(last.ra).ay

\* the latest segment gave the run its first marker
FirstMarkerEmitted ==
    /\ Stepped
    /\ last.before.markers = <<>>
    /\ last.outcome = "emit"

\* C31: the first marker of a run is accepted only if its candidate passes
\* the strict acquisition thresholds with confidence >= 0.70, never on the
\* ambiguous thresholds, and it is the top-scoring candidate among at most 40
\* consecutive corpus entries from the forced start index, else from index 0.
C31_FirstMarkerStrict ==
    FirstMarkerEmitted =>
        LET start == IF forced_start_index # None THEN forced_start_index ELSE 0
            range == start .. (Min(NCorpus, start + 40) - 1)
            cand == evaluate_index(last.segment, last.emitted)
        IN  /\ Len(markers) = 1
            /\ markers[1].q = "high"
            /\ markers[1].cf >= 700
            /\ cand.adj >= min_score
            /\ cand.ov >= min_overlap
            /\ last.emitted \in range
            /\ \A i \in range : evaluate_index(last.segment, i) # NoCand =>
                   evaluate_index(last.segment, i).adj <= cand.adj

\* marker m beats marker n of the same ayah: a higher quality rank; at equal
\* rank a higher confidence; at equal rank and confidence an earlier time
Beats(m, n) ==
    \/ quality_rank(m.q) > quality_rank(n.q)
    \/ quality_rank(m.q) = quality_rank(n.q) /\ m.cf > n.cf
    \/ quality_rank(m.q) = quality_rank(n.q) /\ m.cf = n.cf /\ m.t < n.t

\* C32: when two markers of the same (surah, ayah) are collapsed into one,
\* the survivor is the one of the higher quality rank; at equal rank the one
\* of the higher confidence; at equal rank and confidence the earlier one.
\* Here for the local-time dedupe of a list of two markers of one ayah.
C32_SurvivorIsBest ==
    (pc = "deduped_once" /\ Len(last.input) = 2 /\ Len(markers) = 1
        /\ last.input[1].ay = last.input[2].ay) =>
        /\ Beats(last.input[2], last.input[1]) => markers[1] = last.input[2]
        /\ Beats(last.input[1], last.input[2]) => markers[1] = last.input[1]

\* C33: after the local-time dedupe with a 90 s window no two markers of the
\* result have the same (surah, ayah) and times at most 90 s apart, and a
\* second application changes nothing.
C33_DedupeLeavesNoLocalDuplicate ==
    /\ pc \in {"deduped_once", "deduped_twice"} =>
          \A i, j \in DOMAIN markers :
              (i # j /\ markers[i].sn = markers[j].sn /\ markers[i].ay = markers[j].ay)
                  => Abs(markers[i].t - markers[j].t) > 90
    /\ pc = "deduped_twice" => markers = last.once

\* C37: _prune_unrealistic_progression is idempotent.
C37_PruneIdempotent ==
    pc = "pruned_twice" => markers = last.once

\* the candidate cross-surah move of the latest segment was rejected: the
\* terminal ayah of the previous surah was not reached, or the forward test
\* failed
CrossSurahRejected ==
    /\ CrossSurahSelected
    /\ last.outcome \in {"tail_reject", "transition_reject"}

\* C38: when the matcher rejects a candidate cross-surah move for a segment,
\* the marker list after that segment equals the list before it: no
\* transition-tail marker is added or replaced by the rejected move.
C38_RejectedMoveLeavesMarkers ==
    CrossSurahRejected => markers = last.before.markers

\* the latest segment met the matcher awaiting re-acquisition and repeats the
\* ayah under the pointer with repeat-threshold evidence, that ayah's marker
\* ending at most 900 seconds before the segment starts and before the
\* segment's own end
RepeatWhileAwaiting ==
    /\ AwaitingAtSelection
    /\ last.outcome \notin {"fatiha", "nonrec", "held", "short"}
    /\ AtSelection.markers # <<>>
    /\ AtSelection.last_matched_index >= 0
    /\ repeat_best_index(last.segment, AtSelection.last_matched_index)
          = AtSelection.last_matched_index
    /\ AtSelection.marker_positions[AtSelection.last_matched_index] # 0
    /\ LET existing == AtSelection.markers[
                           AtSelection.marker_positions[AtSelection.last_matched_index]]
           cand == evaluate_index(last.segment, AtSelection.last_matched_index)
       IN  /\ last.segment.s - EndOr(existing, StartOf(existing)) <= 900
           /\ resolve_marker_times(last.segment, cand).en
                 > EndOr(existing, StartOf(existing))
           /\ \A k \in DOMAIN AtSelection.markers :
                 ~(/\ AtSelection.markers[k].sn = existing.sn
                   /\ AtSelection.markers[k].ay > existing.ay)

\* C36: while awaiting_reacquire is set, a segment that repeats the
\* previously emitted ayah with repeat-threshold evidence extends that ayah's
\* end_time when the gap between the marker's end and the segment's start is
\* at most 900 seconds.
C36_RepeatWhileAwaitingExtends ==
    RepeatWhileAwaiting =>
        LET pos == AtSelection.marker_positions[AtSelection.last_matched_index]
        IN  /\ pos \in DOMAIN markers
            /\ markers[pos].en > AtSelection.markers[pos].en

\* the latest segment starts within the hold of an earlier non-recitation
\* segment, max(8, non_recitation_hold_seconds) after that segment's end, and
\* no re-anchor point has fired since that segment
WithinHold ==
    /\ Stepped
    /\ \E j \in DOMAIN last.before.transcript :
          /\ last.before.transcript[j].k = "nonrec"
          /\ last.segment.s <= last.before.transcript[j].e
                                  + Max(8, non_recitation_hold_seconds)
          /\ \/ reanchor_cursor = 0
             \/ j = Len(last.before.transcript) /\ ~last.reanchored

WeakSupportSomewhere(m) ==
    /\ IndexOf(m.sn, m.ay) # None
    /\ \E k \in DOMAIN transcript :
          /\ HasEvidence(transcript[k], IndexOf(m.sn, m.ay))
          /\ LevelScore(transcript[k].ev[IndexOf(m.sn, m.ay)])
                >= Max(60, ambiguous_min_score - 8)
          /\ LevelOverlap(transcript[k].ev[IndexOf(m.sn, m.ay)])
                >= Max(70, min_overlap - 50)

\* C35: with require_weak_support_for_inferred set, every marker of quality
\* inferred in the engine's output was created after the weak-local-support
\* check succeeded for its ayah: the transcript holds a segment whose evidence
\* for that ayah meets the weak-support thresholds.
C35_InferredHasWeakSupport ==
    (pc = "returned" /\ require_weak_support_for_inferred) =>
        \A k \in DOMAIN markers :
            markers[k].q = "inferred" => WeakSupportSomewhere(markers[k])

\* two markers of the final list that are anchors of one surah with no other
\* anchor of that surah and no reset timestamp between them, too far apart
\* for inference in time or in ayat
FarApartAnchors(l, r) ==
    /\ markers[l].q # "inferred"
    /\ markers[r].q # "inferred"
    /\ markers[l].sn = markers[r].sn
    /\ markers[l].ay < markers[r].ay
    /\ \A k \in DOMAIN markers :
          ~(/\ markers[k].q # "inferred"
            /\ markers[k].sn = markers[l].sn
            /\ markers[k].ay > markers[l].ay
            /\ markers[k].ay < markers[r].ay)
    /\ \A n \in DOMAIN fatiha_reset_times :
          ~(fatiha_reset_times[n] > markers[l].t /\ fatiha_reset_times[n] < markers[r].t)
    /\ \/ markers[r].t - markers[l].t > max_infer_gap_seconds
       \/ markers[r].ay - markers[l].ay - 1 > max_infer_gap_ayahs

\* C34: for two same-surah anchors L and R with no reset timestamp between
\* them, if R.time - L.time > max_infer_gap_seconds or more than
\* max_infer_gap_ayahs ayat are missing between them, the final list holds
\* no marker of quality inferred for an ayah strictly between L.ayah and
\* R.ayah.
C34_NoInferenceAcrossFarAnchors ==
    pc = "returned" =>
        \A l, r \in DOMAIN markers :
            FarApartAnchors(l, r) =>
                \A k \in DOMAIN markers :
                    ~(/\ markers[k].q = "inferred"
                      /\ markers[k].sn = markers[l].sn
                      /\ markers[k].ay > markers[l].ay
                      /\ markers[k].ay < markers[r].ay)

====
